---- MODULE Spec2Model ----
(***************************************************************************)
(* Reservation inventory and payment reconciliation of the transport app.  *)
(*                                                                         *)
(* The relational store is MySQL/InnoDB reached through the mysql2 pool of *)
(* src/src/db.js, which sets no isolation level: transactions run under    *)
(* the server default, REPEATABLE READ.  A transaction's plain SELECTs     *)
(* read the snapshot taken by its first plain SELECT; SELECT ... FOR       *)
(* UPDATE, UPDATE and INSERT act on the latest committed rows and wait for *)
(* row locks.  pool.query() outside a transaction is one autocommitted     *)
(* statement.  Every SQL statement and every gateway call is one step.     *)
(***************************************************************************)
EXTENDS Integers, Sequences, FiniteSets, TLC

\* ---------------------------------------------------------------- bounds
NTokens == 3
NTrips == 1
MaxRes == 2
NProc == 1
NRace == 2
MaxSessions == 1
NCodes == 2
MaxPaidWrites == 2
NFolioTrips == 2
MaxDisableRows == 4

\* ------------------------------------------------------- program constants
MAX_CAP == 6

ALLOWED_TYPES == {"PASSENGER", "PACKAGE"}
ALLOWED_PAYMENT_METHODS == {"TAQUILLA", "TRANSFERENCIA", "ONLINE"}

Trips == 1..NTrips
\* ticket codes: ensureTicketForReservation draws 10 hex characters,
\* genTicketCode 8 base64url characters, so the two ranges never meet
HexCodes == 1..NCodes
B64Codes == (NCodes + 1)..(2 * NCodes)
\* capacity_passengers of the departure template behind each trip
capacity_passengers(t) == IF t % 3 = 1 THEN 6 ELSE IF t % 3 = 2 THEN 8 ELSE 4

Min(a, b) == IF a < b THEN a ELSE b
Max(a, b) == IF a > b THEN a ELSE b

VARIABLES
    trips,      \* transporte_trips: status per (template, date); "NONE" = no row
    res,        \* transporte_reservations, committed rows, id = index
    tickets,    \* transporte_tickets: reservation id -> code, 0 = no row
    sessions,   \* hosted checkout sessions held by the payment gateway
    delivered,  \* sessions whose payment-succeeded event was handled to the end
    procs,      \* in-flight request handlers, one record per worker
    out,        \* the response of each worker's latest finished request
    pricing     \* transporte_settings id=1: passenger and package price

vars == <<trips, res, tickets, sessions, delivered, procs, out, pricing>>

\* the status list with EXPIRED left in
StatusesWithExpired == {"PENDING_PAYMENT", "PAY_AT_BOARDING", "PAID", "EXPIRED"}

ActiveStatuses == {"PENDING_PAYMENT", "PAY_AT_BOARDING", "PAID"}

\* ------------------------------------------------------------- SeatLedger

\* the declared seats, whatever the roster
DeclaredSeats(r) == r.seats

\* COALESCE(rp.passenger_count, NULLIF(r.seats, 0), 1)
SeatCount(r) ==
    IF r.names > 0 THEN r.names
    ELSE IF r.seats # 0 THEN r.seats
    ELSE 1

\* the CASE expression inside SUM(...)
ActiveSeats(r) ==
    IF r.type = "PASSENGER" /\ r.status \in ActiveStatuses
    THEN SeatCount(r) ELSE 0

RECURSIVE SumSeats(_, _, _)
SumSeats(table, t, n) ==
    IF n = 0 THEN 0
    ELSE SumSeats(table, t, n - 1)
         + (IF table[n].trip = t THEN ActiveSeats(table[n]) ELSE 0)

UsedSeats(table, t) == SumSeats(table, t, Len(table))

\* GREATEST(LEAST(capacity, MAX_CAP) - SUM(...), 0)
computeAvailable(table, t) ==
    Max(Min(capacity_passengers(t), MAX_CAP) - UsedSeats(table, t), 0)

\* ---------------------------------------------------------------- pricing

\* prices in whole pesos; the columns of transporte_settings are not
\* constrained to be positive
MaxPrice == 2
Prices == 0..MaxPrice
DefaultPricing == [passenger |-> 1, package |-> 1]

\* the total is the unit price whatever the seats
FlatTotals(type, seats, pr) ==
    LET unit == IF type = "PASSENGER" THEN pr.passenger ELSE pr.package
    IN [unit |-> unit, total |-> unit]

\* PASSENGER is per seat, PACKAGE is fixed
computeTotalsWithPricing(type, seats, pr) ==
    LET s == Max(1, seats)
        unit == IF type = "PASSENGER" THEN pr.passenger ELSE pr.package
    IN [unit |-> unit,
        total |-> IF type = "PASSENGER" THEN unit * s ELSE unit]

\* the operator edits the row of transporte_settings
PriceChange(pr) ==
    /\ pr \in [passenger : Prices, package : Prices]
    /\ pr # pricing
    /\ pricing' = pr
    /\ UNCHANGED <<trips, res, tickets, sessions, delivered, procs, out>>

\* a session of the gateway for reservation r of the table
SessionOf(table, r, st) ==
    [res |-> r, st |-> st, amount |-> table[r].total]

\* ---------------------------------------------------------- public token

\* tokens are compared for equality only: 0 stands for NULL or ''
TokenInUse(table, tok) == \E i \in 1..Len(table) : table[i].token = tok

\* crypto.randomBytes(24): a token no stored reservation has
makePublicToken(table) ==
    CHOOSE tok \in 1..(Len(table) + 1) :
        /\ ~TokenInUse(table, tok)
        /\ \A u \in 1..(tok - 1) : TokenInUse(table, u)

Tokens == 1..NTokens

\* the loop of ensurePublicTokenByReservationId: for (let i = 0; i < 5; i++)
TOKEN_ATTEMPTS == 5

\* the UPDATE without its condition on public_token
SetTokenAlways(row, tok) == [row EXCEPT !.token = tok]

\* UPDATE ... SET public_token = ? WHERE id = ? AND (public_token IS NULL OR
\* public_token = '')
SetTokenIfEmpty(row, tok) ==
    IF row.token = 0 THEN [row EXCEPT !.token = tok] ELSE row

\* ---------------------------------------------------------------- workers

Idle ==
    [op |-> "idle", pc |-> "idle", rid |-> 0, trip |-> 0, type |-> "",
     seats |-> 0, names |-> 0, method |-> "", hasName |-> FALSE,
     hasDetails |-> FALSE, madeTrip |-> FALSE, snapAvail |-> 0,
     snapTrip |-> "", snapSeq |-> 0, seq |-> 0, sid |-> 0, code |-> 0,
     st |-> "", tk |-> 0, unit |-> 0, total |-> 0, tries |-> 0]

NoOut == [op |-> "", rid |-> 0, resp |-> "", code |-> 0]

Workers == DOMAIN procs

\* the response log keeps the latest answer of the workers it observes
Record(p, op, rid, resp, code) ==
    IF p \in DOMAIN out
    THEN [out EXCEPT ![p] = [op |-> op, rid |-> rid, resp |-> resp,
                            code |-> code]]
    ELSE out

Finish(p, resp, code) ==
    /\ procs' = [procs EXCEPT ![p] = Idle]
    /\ out' = Record(p, procs[p].op, procs[p].rid, resp, code)

\* the trip row read without FOR UPDATE: no lock is held
NoTripLock(p, t) == FALSE

\* the trip row t is locked by a createReservation transaction: it inserted
\* the row (uncommitted) or passed SELECT ... FOR UPDATE
TripLockedBy(p, t) ==
    /\ procs[p].op = "reserve"
    /\ procs[p].trip = t
    /\ \/ procs[p].madeTrip
       \/ procs[p].pc \in {"avail", "insert", "commit"}

TripLocked(t) == \E p \in Workers : TripLockedBy(p, t)

\* the reservation row r is locked by a mark-paid transaction past its
\* SELECT ... FOR UPDATE
RowLocked(r) ==
    \E p \in Workers : procs[p].op = "markPaid" /\ procs[p].pc = "mp_ticket"
                     /\ procs[p].rid = r

\* a transaction held open for as long as the request is served
OpenWhileServing(me) == me.op # "idle"

\* the handler is between conn.beginTransaction() and its commit or rollback:
\* POST /reserve and mark-paid; create-session, the pay page, the webhook and
\* ensureTicketForReservation run single autocommitted statements
OpenTransaction(me) ==
    \/ me.op = "reserve"
         /\ me.pc \in {"lookup", "lock", "avail", "insert", "commit"}
    \/ me.op = "markPaid" /\ me.pc = "mp_ticket"

\* the handler's next step awaits stripe.checkout.sessions.retrieve or
\* stripe.checkout.sessions.create
AwaitsGateway(me) == me.pc \in {"cs_retrieve", "cs_create", "pay_retrieve"}

\* requests are taken by the first free worker
FirstIdle(p) ==
    /\ procs[p].op = "idle"
    /\ \A q \in Workers : q < p => procs[q].op # "idle"

\* an observed worker that has served no request yet
Fresh(p) ==
    /\ procs[p].op = "idle"
    /\ p \in DOMAIN out /\ out[p] = NoOut

\* observed requests are numbered in their order of arrival
InOrder(p) ==
    \A q \in Workers :
        q < p => (procs[q].op # "idle" \/ out[q] # NoOut)

InFlightReserves == Cardinality({p \in Workers : procs[p].op = "reserve"})

\* ------------------------------------------------------ daily folio

\* MAX(daily_seq) over the rows of the folio date; every trip of the model
\* runs on the same date.  daily_seq 0 = the column is not set.
RECURSIVE MaxSeq(_, _)
MaxSeq(table, n) ==
    IF n = 0 THEN 0 ELSE Max(table[n].seq, MaxSeq(table, n - 1))

\* ----------------------------------------------------------------- Init

Init ==
    /\ trips = [t \in Trips |-> "NONE"]
    /\ res = <<>>
    /\ tickets = [r \in 1..MaxRes |-> 0]
    /\ sessions = <<>>
    /\ delivered = {}
    /\ procs = [p \in 1..NProc |-> Idle]
    /\ out = <<>>
    /\ pricing = DefaultPricing

\* ------------------------------------------- POST /reserve (public.js:339)

\* the seats as sent
SeatsAsSent(type, wanted) == wanted

\* seats = Math.max(1, Math.min(MAX_CAP, wanted)) for PASSENGER, 0 for PACKAGE
ClampSeats(type, wanted) ==
    IF type = "PASSENGER" THEN Max(1, Min(MAX_CAP, wanted)) ELSE 0

\* status = payment_method === "TAQUILLA" ? "PAY_AT_BOARDING" : "PENDING_PAYMENT"
InitialStatus(method) ==
    IF method = "TAQUILLA" THEN "PAY_AT_BOARDING" ELSE "PENDING_PAYMENT"

\* passenger_names after trim/filter: none, one per seat, or one too many
NameChoices == {"none", "match", "extra"}
NameCount(nm, seats) ==
    IF nm = "none" THEN 0 ELSE IF nm = "match" THEN seats ELSE seats + 1

\* beginTransaction + getPricing: the first plain SELECT fixes the snapshot.
\* The transaction's two later plain SELECTs (the trip by its key, the
\* availability sum) read that snapshot, so their results are those of the
\* committed rows of this moment: snapTrip, snapAvail and snapSeq.
ReserveStartUpTo(p, cap, tripSet, types, wantedSet, methods, nameSet, filled) ==
    /\ procs[p].op = "idle"
    /\ Len(res) + InFlightReserves < cap
    /\ \E t \in tripSet, type \in types, wanted \in wantedSet,
          method \in methods, hasName \in filled,
          hasDetails \in filled, nm \in nameSet :
        LET seats == ClampSeats(type, wanted) IN
        /\ procs' = [procs EXCEPT ![p] =
              [Idle EXCEPT !.op = "reserve", !.pc = "lookup", !.trip = t,
                           !.type = type, !.seats = seats,
                           \* PACKAGE: passengerNames = []
                           !.names = IF type = "PACKAGE" THEN 0
                                     ELSE NameCount(nm, seats),
                           !.method = method, !.hasName = hasName,
                           !.hasDetails = hasDetails,
                           !.snapTrip = trips[t],
                           !.snapSeq = MaxSeq(res, Len(res)),
                           !.snapAvail = computeAvailable(res, t),
                           !.unit = computeTotalsWithPricing(
                                        type, seats, pricing).unit,
                           !.total = computeTotalsWithPricing(
                                        type, seats, pricing).total]]
    /\ UNCHANGED <<trips, res, tickets, sessions, delivered, out, pricing>>

ReserveStart(p, tripSet, types, wantedSet, methods, nameSet, filled) ==
    ReserveStartUpTo(p, MaxRes, tripSet, types, wantedSet, methods, nameSet,
                     filled)

\* type or payment_method outside its set: 400 before any transaction
ReserveBadEnum(p) ==
    /\ procs[p].op = "idle"
    /\ \E type \in ALLOWED_TYPES \cup {"OTHER"},
          method \in ALLOWED_PAYMENT_METHODS \cup {"OTHER"} :
        /\ type \notin ALLOWED_TYPES \/ method \notin ALLOWED_PAYMENT_METHODS
        /\ out' = Record(p, "reserve", 0, "VALIDATION", 0)
    /\ UNCHANGED <<trips, res, tickets, sessions, delivered, procs, pricing>>

\* a well-formed request for four seats, or for a package
ReserveBegin(p) ==
    ReserveStart(p, Trips, ALLOWED_TYPES, {4}, ALLOWED_PAYMENT_METHODS,
                 {"none"}, {TRUE})

\* getOrCreateTrip(conn, template.id, trip_date) inside the transaction
ReserveLookup(p) ==
    LET me == procs[p] t == me.trip IN
    /\ me.op = "reserve" /\ me.pc = "lookup"
    /\ IF me.snapTrip # "NONE"
       THEN \* the SELECT finds the row in the snapshot
            /\ procs' = [procs EXCEPT ![p].pc = "lock"]
            /\ out' = out
       ELSE IF trips[t] # "NONE"
       THEN \* INSERT hits the unique key of a row committed after the
            \* snapshot; the catch re-SELECTs in the same snapshot, finds
            \* nothing, and again[0].id throws: rollback, 500
            Finish(p, "ERROR_500", 0)
       ELSE \* INSERT waits while another transaction holds the same key
            /\ ~\E q \in Workers \ {p} : TripLockedBy(q, t)
            /\ procs' = [procs EXCEPT ![p].pc = "lock", ![p].madeTrip = TRUE]
            /\ out' = out
    /\ UNCHANGED <<trips, res, tickets, sessions, delivered, pricing>>

\* SELECT id, status FROM transporte_trips WHERE id=? FOR UPDATE
ReserveLock(p) ==
    LET me == procs[p] t == me.trip
        st == IF me.madeTrip THEN "OPEN" ELSE trips[t] IN
    /\ me.op = "reserve" /\ me.pc = "lock"
    /\ ~\E q \in Workers \ {p} : TripLockedBy(q, t)
    /\ IF st # "OPEN"
       THEN Finish(p, "TRIP_DISABLED", 0)
       ELSE /\ procs' = [procs EXCEPT ![p].pc = "avail"]
            /\ out' = out
    /\ UNCHANGED <<trips, res, tickets, sessions, delivered, pricing>>

\* computeAvailable(conn, trip.id): a plain SELECT, so it reads the snapshot;
\* then the capacity check and the field validations, each with rollback
ReserveAvail(p) ==
    LET me == procs[p]
        available == me.snapAvail IN
    /\ me.op = "reserve" /\ me.pc = "avail"
    /\ IF me.type = "PASSENGER" /\ available < me.seats
       THEN Finish(p, "CAPACITY", 0)
       ELSE IF ~me.hasName
       THEN Finish(p, "VALIDATION", 0)
       ELSE IF me.type = "PACKAGE" /\ ~me.hasDetails
       THEN Finish(p, "VALIDATION", 0)
       ELSE IF me.type = "PASSENGER" /\ me.names > 0 /\ me.names # me.seats
       THEN Finish(p, "VALIDATION", 0)
       ELSE /\ procs' = [procs EXCEPT ![p].pc = "insert"]
            /\ out' = out
    /\ UNCHANGED <<trips, res, tickets, sessions, delivered, pricing>>

\* INSERT INTO transporte_reservations + the roster rows (uncommitted).
\* The five tokens drawn may all be tokens of stored reservations, and the
\* roster INSERT may raise: the handler throws, rollback, 500.
ReserveInsert(p) ==
    LET me == procs[p] IN
    /\ me.op = "reserve" /\ me.pc = "insert"
    /\ \/ /\ procs' = [procs EXCEPT ![p].pc = "commit",
                                    ![p].st = InitialStatus(me.method)]
          /\ out' = out
       \/ /\ Len(res) > 0 \/ me.names > 0
          /\ Finish(p, "ERROR_500", 0)
    /\ UNCHANGED <<trips, res, tickets, sessions, delivered, pricing>>

\* the reservation row without its roster rows
NewRowNoRoster(me) ==
    [trip |-> me.trip, type |-> me.type, seats |-> me.seats, names |-> 0,
     method |-> me.method, status |-> me.st,
     paidAt |-> 0, sid |-> 0, pi |-> 0, seq |-> me.seq,
     token |-> makePublicToken(res), payments |-> <<>>,
     unit |-> me.unit, total |-> me.total]

NewRow(me) ==
    [trip |-> me.trip, type |-> me.type, seats |-> me.seats,
     names |-> IF me.type = "PASSENGER" THEN me.names ELSE 0,
     method |-> me.method, status |-> me.st,
     paidAt |-> 0, sid |-> 0, pi |-> 0, seq |-> me.seq,
     token |-> makePublicToken(res), payments |-> <<>>,
     unit |-> me.unit, total |-> me.total]

\* conn.commit(): the reservation, its roster and a created trip row appear
ReserveCommit(p) ==
    LET me == procs[p] IN
    /\ me.op = "reserve" /\ me.pc = "commit"
    /\ res' = Append(res, NewRow(me))
    /\ trips' = IF me.madeTrip THEN [trips EXCEPT ![me.trip] = "OPEN"] ELSE trips
    /\ procs' = [procs EXCEPT ![p] = Idle]
    /\ out' = Record(p, "reserve", Len(res) + 1,
                           "CREATED", 0)
    /\ UNCHANGED <<tickets, sessions, delivered, pricing>>

\* ------------- lock waits on the unique key of transporte_trips
\* (getOrCreateTrip, public.js:201)

\* INSERT INTO transporte_trips while another transaction holds the
\* exclusive lock of an uncommitted row with the same (template_id,
\* trip_date): the duplicate check queues a shared lock request behind the
\* holder, whose worker number is kept in sid
ReserveLookupQueued(p) ==
    LET me == procs[p] t == me.trip IN
    /\ me.op = "reserve" /\ me.pc = "lookup"
    /\ me.snapTrip = "NONE" /\ trips[t] = "NONE"
    /\ \E q \in Workers \ {p} :
        /\ TripLockedBy(q, t)
        /\ procs' = [procs EXCEPT ![p].pc = "trip_wait", ![p].sid = q]
    /\ UNCHANGED <<trips, res, tickets, sessions, delivered, out, pricing>>

\* the holder committed or rolled back: every shared lock request queued
\* behind it is granted at once
SharedHeld(q, t) ==
    /\ procs[q].op = "reserve" /\ procs[q].pc = "trip_wait"
    /\ procs[q].trip = t
    /\ ~TripLockedBy(procs[q].sid, t)

\* an INSERT of the same key that starts while shared locks are held waits
NoSharedHolder(p) ==
    (procs[p].pc = "lookup" /\ procs[p].snapTrip = "NONE")
        => ~\E q \in Workers \ {p} : SharedHeld(q, procs[p].trip)

\* the INSERT goes on with its shared lock granted.  The holder committed:
\* duplicate-key error, and the catch of getOrCreateTrip re-SELECTs in the
\* snapshot, finds nothing and throws (rollback, 500).  The holder rolled
\* back: the row is gone and the INSERT needs the exclusive lock, which
\* waits for every other shared lock on the key
TripInsertResume(p) ==
    LET me == procs[p] t == me.trip IN
    /\ SharedHeld(p, t)
    /\ IF trips[t] # "NONE"
       THEN Finish(p, "ERROR_500", 0)
       ELSE /\ ~\E q \in Workers \ {p} : SharedHeld(q, t)
            /\ procs' = [procs EXCEPT ![p].pc = "lock", ![p].madeTrip = TRUE,
                                      ![p].sid = 0]
            /\ out' = out
    /\ UNCHANGED <<trips, res, tickets, sessions, delivered, pricing>>

\* transaction p waits for a lock that transaction q holds
WaitsFor(p, q) ==
    LET me == procs[p] t == me.trip IN
    /\ p # q /\ me.op = "reserve"
    /\ \/ me.pc \in {"trip_wait", "lock"} /\ TripLockedBy(q, t)
       \/ SharedHeld(p, t) /\ trips[t] = "NONE" /\ SharedHeld(q, t)

RECURSIVE WaitPath(_, _, _)
WaitPath(p, q, n) ==
    \/ WaitsFor(p, q)
    \/ /\ n > 0
       /\ \E m \in Workers \ {p, q} : WaitsFor(p, m) /\ WaitPath(m, q, n - 1)

InWaitCycle(p) ==
    \E q \in Workers \ {p} :
        WaitPath(p, q, Cardinality(Workers)) /\ WaitPath(q, p, Cardinality(Workers))

\* the deadlock detector rolls back one transaction of the cycle: its locks
\* are released and its INSERT raises; the catch of getOrCreateTrip swallows
\* the error.  The connection is left without a transaction: each later
\* statement is committed on its own
DeadlockVictim(p) ==
    /\ InWaitCycle(p)
    /\ procs' = [procs EXCEPT ![p].pc = "ac_select", ![p].sid = 0]
    /\ UNCHANGED <<trips, res, tickets, sessions, delivered, out, pricing>>

\* the SELECT in the catch: no committed row, again[0].id throws and the
\* handler answers 500; else the handler goes on with the row it found
VictimReselect(p) ==
    LET me == procs[p] IN
    /\ me.op = "reserve" /\ me.pc = "ac_select"
    /\ IF trips[me.trip] = "NONE"
       THEN Finish(p, "ERROR_500", 0)
       ELSE /\ procs' = [procs EXCEPT ![p].pc = "ac_lock"]
            /\ out' = out
    /\ UNCHANGED <<trips, res, tickets, sessions, delivered, pricing>>

\* SELECT ... FOR UPDATE outside a transaction: it waits for the row lock
\* and gives it back when the statement ends
VictimLock(p) ==
    LET me == procs[p] IN
    /\ me.op = "reserve" /\ me.pc = "ac_lock"
    /\ ~\E q \in Workers \ {p} : TripLockedBy(q, me.trip)
    /\ IF trips[me.trip] # "OPEN"
       THEN Finish(p, "TRIP_DISABLED", 0)
       ELSE /\ procs' = [procs EXCEPT ![p].pc = "ac_avail"]
            /\ out' = out
    /\ UNCHANGED <<trips, res, tickets, sessions, delivered, pricing>>

\* computeAvailable reads the committed rows of this moment; the capacity
\* check and the field validations follow
VictimAvail(p) ==
    LET me == procs[p] IN
    /\ me.op = "reserve" /\ me.pc = "ac_avail"
    /\ IF me.type = "PASSENGER" /\ computeAvailable(res, me.trip) < me.seats
       THEN Finish(p, "CAPACITY", 0)
       ELSE IF ~me.hasName
       THEN Finish(p, "VALIDATION", 0)
       ELSE IF me.type = "PACKAGE" /\ ~me.hasDetails
       THEN Finish(p, "VALIDATION", 0)
       ELSE IF me.type = "PASSENGER" /\ me.names > 0 /\ me.names # me.seats
       THEN Finish(p, "VALIDATION", 0)
       ELSE /\ procs' = [procs EXCEPT ![p].pc = "ac_insert"]
            /\ out' = out
    /\ UNCHANGED <<trips, res, tickets, sessions, delivered, pricing>>

\* the INSERT of the reservation and of its roster, committed as they run;
\* conn.commit() has nothing left to commit
VictimInsert(p) ==
    LET me == procs[p] IN
    /\ me.op = "reserve" /\ me.pc = "ac_insert"
    /\ res' = Append(res, NewRow([me EXCEPT !.st = InitialStatus(me.method)]))
    /\ procs' = [procs EXCEPT ![p] = Idle]
    /\ out' = Record(p, "reserve", Len(res) + 1, "CREATED", 0)
    /\ UNCHANGED <<trips, tickets, sessions, delivered, pricing>>

\* ------------------------------------- GET /availability (public.js:295)

\* the SELECT of the active templates of the direction, by depart_time
AvailStart(p) ==
    /\ procs[p].op = "idle"
    /\ procs' = [procs EXCEPT ![p] =
          [Idle EXCEPT !.op = "availability", !.pc = "av_trip", !.trip = 1]]
    /\ UNCHANGED <<trips, res, tickets, sessions, delivered, out, pricing>>

\* one turn of the loop: getOrCreateTrip(conn, t.id, date) on a connection in
\* autocommit (its INSERT waits for an uncommitted INSERT of the same key),
\* then computeAvailable for a trip that is OPEN; code counts the results
AvailTrip(p) ==
    LET me == procs[p] t == me.trip
        status == IF trips[t] = "NONE" THEN "OPEN" ELSE trips[t]
        n == IF status = "OPEN" THEN me.code + 1 ELSE me.code IN
    /\ me.op = "availability" /\ me.pc = "av_trip"
    /\ trips[t] = "NONE" => ~TripLocked(t)
    /\ trips' = [trips EXCEPT ![t] = status]
    /\ IF t + 1 \in DOMAIN trips
       THEN /\ procs' = [procs EXCEPT ![p].trip = t + 1, ![p].code = n]
            /\ out' = out
       ELSE /\ procs' = [procs EXCEPT ![p] = Idle]
            /\ out' = Record(p, "availability", 0, "OK", n)
    /\ UNCHANGED <<res, tickets, sessions, delivered, pricing>>

\* --------------------- POST /reservation/:id/mark-paid (part_001:807)

PaidByAdmin(r, method) ==
    [r EXCEPT !.status = "PAID", !.paidAt = r.paidAt + 1, !.method = method]

CodeInUse(c) == \E r \in 1..MaxRes : tickets[r] = c

\* beginTransaction, SELECT ... FOR UPDATE, the CANCELLED early return, the
\* UPDATE to PAID (uncommitted) and the SELECT of the ticket code
MarkPaidLock(p) ==
    /\ procs[p].op = "idle"
    /\ \E r \in 1..Len(res), method \in ALLOWED_PAYMENT_METHODS :
        /\ ~RowLocked(r)
        /\ IF res[r].status = "CANCELLED"
           THEN /\ out' = Record(p, "markPaid", r,
                           "REDIRECT", 0)
                /\ procs' = procs
           ELSE /\ res[r].paidAt < MaxPaidWrites
                /\ procs' = [procs EXCEPT ![p] =
                      [Idle EXCEPT !.op = "markPaid", !.pc = "mp_ticket",
                                   !.rid = r, !.method = method,
                                   !.tk = tickets[r]]]
                /\ out' = out
    /\ UNCHANGED <<trips, res, tickets, sessions, delivered, pricing>>

\* the ticket insert loop (10 attempts), then commit, or rollback and 500
MarkPaidTicket(p) ==
    LET me == procs[p] r == me.rid IN
    /\ me.op = "markPaid" /\ me.pc = "mp_ticket"
    /\ IF me.tk # 0
       THEN \* a ticket was there: commit
            /\ res' = [res EXCEPT ![r] = PaidByAdmin(res[r], me.method)]
            /\ tickets' = tickets
            /\ Finish(p, "REDIRECT", 0)
       ELSE IF tickets[r] # 0
       THEN \* a ticket committed since the SELECT: every INSERT hits the
            \* unique key on reservation_id, the loop gives up and throws
            /\ UNCHANGED <<res, tickets>>
            /\ Finish(p, "ERROR_500", 0)
       ELSE \/ \E c \in B64Codes :
                 /\ ~CodeInUse(c)
                 /\ tickets' = [tickets EXCEPT ![r] = c]
                 /\ res' = [res EXCEPT ![r] = PaidByAdmin(res[r], me.method)]
                 /\ Finish(p, "REDIRECT", c)
            \/ \* all ten codes drawn are codes of existing tickets
               /\ \E c \in B64Codes : CodeInUse(c)
               /\ UNCHANGED <<res, tickets>>
               /\ Finish(p, "ERROR_500", 0)
    /\ UNCHANGED <<trips, sessions, delivered, pricing>>

\* ------------------------ POST /reservation/:id/cancel (part_001:893)

\* the UPDATE without the two early returns
CancelAny(r) == [r EXCEPT !.status = "CANCELLED"]

CancelRow(r) ==
    IF r.status = "CANCELLED" THEN r
    ELSE IF r.status = "PAID" /\ r.method # "ONLINE" THEN r
    ELSE [r EXCEPT !.status = "CANCELLED"]

\* SELECT ... FOR UPDATE waits for the row lock; every path that finds the
\* row ends with res.redirect(back)
CancelBy(p, r) ==
    /\ r \in 1..Len(res)
    /\ ~RowLocked(r)
    /\ res' = [res EXCEPT ![r] = CancelRow(res[r])]
    /\ out' = Record(p, "cancel", r, "REDIRECT", 0)
    /\ UNCHANGED <<trips, tickets, sessions, delivered, procs, pricing>>

\* the same request with its answer not observed
Cancel(r) ==
    /\ r \in 1..Len(res)
    /\ ~RowLocked(r)
    /\ res' = [res EXCEPT ![r] = CancelRow(res[r])]
    /\ UNCHANGED <<trips, tickets, sessions, delivered, procs, out, pricing>>

\* no row with that id: rollback and 404
CancelMissing(p) ==
    /\ \E r \in 1..MaxRes :
        /\ r > Len(res)
        /\ out' = Record(p, "cancel", r, "NOT_FOUND", 0)
    /\ UNCHANGED <<trips, res, tickets, sessions, delivered, procs, pricing>>

\* --------------------- POST /reservation/:id/refund-done (part_001:992)

\* the UPDATE without the guard on status and method
RefundAny(r) == [r EXCEPT !.status = "CANCELLED"]

\* if (!(st === "PAID" && pm === "ONLINE")) rollback; else UPDATE, commit
RefundRow(r) ==
    IF r.status = "PAID" /\ r.method = "ONLINE"
    THEN [r EXCEPT !.status = "CANCELLED"] ELSE r

RefundDone(r) ==
    /\ r \in 1..Len(res)
    /\ ~RowLocked(r)
    /\ res' = [res EXCEPT ![r] = RefundRow(res[r])]
    /\ UNCHANGED <<trips, tickets, sessions, delivered, procs, out, pricing>>

\* the same request with its answer observed: SELECT ... FOR UPDATE waits for
\* the row lock; no row with that id is answered 404, every other path with
\* res.redirect(back)
RefundDoneBy(p, r) ==
    /\ r \in 1..MaxRes
    /\ IF r > Len(res)
       THEN /\ res' = res
            /\ out' = Record(p, "refundDone", r, "NOT_FOUND", 0)
       ELSE /\ ~RowLocked(r)
            /\ res' = [res EXCEPT ![r] = RefundRow(res[r])]
            /\ out' = Record(p, "refundDone", r, "REDIRECT", 0)
    /\ UNCHANGED <<trips, tickets, sessions, delivered, procs, pricing>>

\* ------------------------------ POST /api/horarios/trip (part_001:437)

\* the cascade with WHERE status <> 'CANCELLED'
CascadeAll(r, t) ==
    IF r.trip = t /\ r.status # "CANCELLED"
    THEN [r EXCEPT !.status = "CANCELLED"] ELSE r

CascadeRow(r, t) ==
    IF r.trip = t /\ r.status \in {"PENDING_PAYMENT", "PAY_AT_BOARDING"}
    THEN [r EXCEPT !.status = "CANCELLED"] ELSE r

\* cancelledReservations = u1.affectedRows: the rows the UPDATE matched
cancelledReservations(table, t) ==
    Cardinality({i \in 1..Len(table) :
        table[i].trip = t
        /\ table[i].status \in {"PENDING_PAYMENT", "PAY_AT_BOARDING"}})

\* UPDATE transporte_payments p JOIN transporte_reservations r ... SET
\* p.status = 'REJECTED' WHERE r.trip_id = ? AND p.status = 'PENDING'
RejectPending(pays) ==
    [i \in DOMAIN pays |->
        IF pays[i].status = "PENDING"
        THEN [pays[i] EXCEPT !.status = "REJECTED"] ELSE pays[i]]

RejectOnTrip(r, t) ==
    IF r.trip = t THEN [r EXCEPT !.payments = RejectPending(@)] ELSE r

\* the status written whatever the enabled flag
AlwaysCancelled(enabled) == "CANCELLED"

\* const status = enabledBool ? "OPEN" : "CANCELLED"
UpsertStatus(enabled) == IF enabled THEN "OPEN" ELSE "CANCELLED"

\* the route: the upsert waits for the trip row, the cascade for the rows of
\* the trip; cancelledReservations and rejectedPayments stay 0 unless the
\* status written is CANCELLED; the answer carries cancelledReservations
TripSetBy(p, t, enabled) ==
    LET status == UpsertStatus(enabled)
        cascade == status = "CANCELLED" IN
    /\ ~TripLocked(t)
    /\ cascade => ~\E r \in 1..Len(res) : res[r].trip = t /\ RowLocked(r)
    /\ trips' = [trips EXCEPT ![t] = status]
    /\ res' = IF cascade
              THEN [r \in 1..Len(res) |->
                      RejectOnTrip(CascadeRow(res[r], t), t)]
              ELSE res
    /\ out' = Record(p, IF enabled THEN "tripEnable" ELSE "tripDisable", t,
                     "OK", IF cascade THEN cancelledReservations(res, t)
                           ELSE 0)
    /\ UNCHANGED <<tickets, sessions, delivered, procs, pricing>>

TripDisableBy(p, t) == TripSetBy(p, t, FALSE)

TripDisable(t) == \E p \in Workers : TripDisableBy(p, t)

TripEnable(t) ==
    /\ ~TripLocked(t)
    /\ trips' = [trips EXCEPT ![t] = "OPEN"]
    /\ UNCHANGED <<res, tickets, sessions, delivered, procs, out, pricing>>

\* ------------------------------------------------------ payment gateway

\* what the customer and the gateway do to an open hosted session
GatewayPay(s) ==
    /\ s \in 1..Len(sessions) /\ sessions[s].st = "open"
    /\ sessions' = [sessions EXCEPT ![s].st = "paid"]
    /\ UNCHANGED <<trips, res, tickets, delivered, procs, out, pricing>>

GatewayAsyncFail(s) ==
    /\ s \in 1..Len(sessions) /\ sessions[s].st = "open"
    /\ sessions' = [sessions EXCEPT ![s].st = "failed"]
    /\ UNCHANGED <<trips, res, tickets, delivered, procs, out, pricing>>

GatewayExpire(s) ==
    /\ s \in 1..Len(sessions) /\ sessions[s].st = "open"
    /\ sessions' = [sessions EXCEPT ![s].st = "expired"]
    /\ UNCHANGED <<trips, res, tickets, delivered, procs, out, pricing>>

\* ------------- POST /checkout/t/:token/create-session (public.js:1020)

\* the amount of the session: the stored total when it is positive, else
\* the total recomputed with the prices of this moment
totalMxn(row, pr) ==
    IF row.total > 0 THEN row.total
    ELSE computeTotalsWithPricing(row.type, row.seats, pr).total

\* the reservation read by token, the guards on method and status, and the
\* amount
CsRead(p) ==
    /\ procs[p].op = "idle"
    /\ \E r \in 1..Len(res) :
        LET row == res[r]
            refuse(resp) ==
                /\ out' = Record(p, "createSession", r,
                           resp, 0)
                /\ procs' = procs IN
        IF row.method # "ONLINE" THEN refuse("NOT_ONLINE_PAYMENT")
        ELSE IF row.status = "PAID" THEN refuse("ALREADY_PAID")
        ELSE IF row.status = "EXPIRED" THEN refuse("EXPIRED")
        ELSE IF totalMxn(row, pricing) < 1 THEN refuse("INVALID_AMOUNT")
        ELSE /\ procs' = [procs EXCEPT ![p] =
                   [Idle EXCEPT !.op = "createSession", !.rid = r,
                                !.sid = row.sid,
                                !.total = totalMxn(row, pricing),
                                !.pc = IF row.sid # 0 THEN "cs_retrieve"
                                       ELSE "cs_create"]]
             /\ out' = out
    /\ UNCHANGED <<trips, res, tickets, sessions, delivered, pricing>>

\* stripe.checkout.sessions.retrieve(existingSid)
CsRetrieve(p) ==
    LET me == procs[p] ses == sessions[me.sid] IN
    /\ me.op = "createSession" /\ me.pc = "cs_retrieve"
    /\ IF ses.st = "paid" THEN Finish(p, "ALREADY_PAID", 0)
       ELSE IF ses.st = "open" THEN Finish(p, "SESSION", me.sid)
       ELSE /\ procs' = [procs EXCEPT ![p].pc = "cs_create"]
            /\ out' = out
    /\ UNCHANGED <<trips, res, tickets, sessions, delivered, pricing>>

\* stripe.checkout.sessions.create({... metadata: {reservationId}}); when
\* the gateway call throws, safe() answers 500
CsCreateUpTo(p, cap) ==
    LET me == procs[p] IN
    /\ me.op = "createSession" /\ me.pc = "cs_create"
    /\ \/ /\ Len(sessions) < cap
          /\ sessions' = Append(sessions, [res |-> me.rid, st |-> "open",
                                            amount |-> me.total])
          /\ procs' = [procs EXCEPT ![p].pc = "cs_persist",
                                    ![p].sid = Len(sessions) + 1]
          /\ out' = out
       \/ /\ sessions' = sessions
          /\ Finish(p, "ERROR_500", 0)
    /\ UNCHANGED <<trips, res, tickets, delivered, pricing>>

CsCreate(p) == CsCreateUpTo(p, MaxSessions)

StoreSession(r, sid) ==
    IF r.method = "ONLINE" /\ r.status # "PAID"
    THEN [r EXCEPT !.sid = sid] ELSE r

\* UPDATE ... SET stripe_session_id = ? WHERE ... ONLINE AND status <> 'PAID'
CsPersist(p) ==
    LET me == procs[p] IN
    /\ me.op = "createSession" /\ me.pc = "cs_persist"
    /\ ~RowLocked(me.rid)
    /\ res' = [res EXCEPT ![me.rid] = StoreSession(res[me.rid], me.sid)]
    /\ Finish(p, "SESSION", me.sid)
    /\ UNCHANGED <<trips, tickets, sessions, delivered, pricing>>

\* ------------ legacy routes keyed by reservation id (public.js:1259) and
\* ensurePublicTokenByReservationId (public.js:24)

\* GET /pay/:reservationId, POST /checkout/:reservationId/create-session: the
\* first SELECT of ensurePublicTokenByReservationId; a stored token is
\* answered with a redirect to the token URL, no row with 404
LegacyStart(p) ==
    /\ procs[p].op = "idle"
    /\ \E r \in 1..MaxRes :
        IF r > Len(res)
        THEN /\ out' = Record(p, "legacy", r, "NOT_FOUND", 0)
             /\ procs' = procs
        ELSE IF res[r].token # 0
        THEN /\ out' = Record(p, "legacy", r, "REDIRECT", res[r].token)
             /\ procs' = procs
        ELSE /\ procs' = [procs EXCEPT ![p] =
                   [Idle EXCEPT !.op = "legacy", !.pc = "tk_update",
                                !.rid = r]]
             /\ out' = out
    /\ UNCHANGED <<trips, res, tickets, sessions, delivered, pricing>>

\* makePublicToken() and the conditional UPDATE (autocommit); a token that
\* another reservation holds raises on uk_public_token, which the catch
\* swallows: next attempt, or the final read after the fifth
TkUpdate(p) ==
    LET me == procs[p] IN
    /\ me.op = "legacy" /\ me.pc = "tk_update"
    /\ ~RowLocked(me.rid)
    /\ \E tok \in Tokens :
        IF res[me.rid].token = 0 /\ TokenInUse(res, tok)
        THEN /\ res' = res
             /\ procs' = [procs EXCEPT
                   ![p].tries = me.tries + 1,
                   ![p].pc = IF me.tries + 1 < TOKEN_ATTEMPTS
                             THEN "tk_update" ELSE "tk_final"]
        ELSE /\ res' = [res EXCEPT ![me.rid] = SetTokenIfEmpty(@, tok)]
             /\ procs' = [procs EXCEPT ![p].pc = "tk_readback"]
    /\ UNCHANGED <<trips, tickets, sessions, delivered, out, pricing>>

\* the read back inside the loop
TkReadback(p) ==
    LET me == procs[p] tok == res[me.rid].token IN
    /\ me.op = "legacy" /\ me.pc = "tk_readback"
    /\ IF tok # 0 THEN Finish(p, "REDIRECT", tok)
       ELSE /\ procs' = [procs EXCEPT
                  ![p].tries = me.tries + 1,
                  ![p].pc = IF me.tries + 1 < TOKEN_ATTEMPTS
                            THEN "tk_update" ELSE "tk_final"]
            /\ out' = out
    /\ UNCHANGED <<trips, res, tickets, sessions, delivered, pricing>>

\* the read after the loop: the token, or null and 404
TkFinal(p) ==
    LET me == procs[p] tok == res[me.rid].token IN
    /\ me.op = "legacy" /\ me.pc = "tk_final"
    /\ IF tok # 0 THEN Finish(p, "REDIRECT", tok)
       ELSE Finish(p, "NOT_FOUND", 0)
    /\ UNCHANGED <<trips, res, tickets, sessions, delivered, pricing>>

\* ------------------------------- ensureTicketForReservation (public.js:131)

\* the handler's answer once the ticket code is known
Respond(p, code) ==
    /\ Finish(p, IF procs[p].op = "webhook" THEN "ACK_200" ELSE "PAGE", code)
    /\ delivered' = IF procs[p].op = "webhook"
                    THEN delivered \cup {procs[p].sid} ELSE delivered

\* getTicketCodeByReservationId, then crypto.randomBytes(5) for a new code
EtRead(p) ==
    LET me == procs[p] IN
    /\ me.pc = "et_read"
    /\ IF tickets[me.rid] # 0
       THEN /\ Respond(p, tickets[me.rid])
       ELSE /\ \E c \in HexCodes :
                 procs' = [procs EXCEPT ![p].pc = "et_insert", ![p].code = c]
            /\ UNCHANGED <<out, delivered>>
    /\ UNCHANGED <<trips, res, tickets, sessions, pricing>>

\* unique keys of transporte_tickets: reservation_id and code
TicketInsertOk(r, c) == tickets[r] = 0 /\ ~CodeInUse(c)

\* INSERT INTO transporte_tickets; a failure goes to the catch
EtInsert(p) ==
    LET me == procs[p] IN
    /\ me.pc = "et_insert"
    /\ IF TicketInsertOk(me.rid, me.code)
       THEN /\ tickets' = [tickets EXCEPT ![me.rid] = me.code]
            /\ Respond(p, me.code)
       ELSE /\ procs' = [procs EXCEPT ![p].pc = "et_reread"]
            /\ UNCHANGED <<tickets, out, delivered, pricing>>
    /\ UNCHANGED <<trips, res, sessions, pricing>>

\* catch: return await getTicketCodeByReservationId(reservationId)
EtReread(p) ==
    LET me == procs[p] IN
    /\ me.pc = "et_reread"
    /\ Respond(p, tickets[me.rid])
    /\ UNCHANGED <<trips, res, tickets, sessions, pricing>>

\* ---------------- GET /ticket/:code, GET /ticket/:code/pdf (ticket.js:67)

\* SELECT ... FROM transporte_tickets tk JOIN transporte_reservations r ...
\* WHERE tk.code = ?: the ticket and its reservation are rendered whenever
\* the code has a row; no row is answered 404
TicketLookup(p, c) ==
    /\ procs[p].op = "idle"
    /\ IF \E r \in 1..Len(res) : tickets[r] = c
       THEN out' = Record(p, "ticket",
                          CHOOSE r \in 1..Len(res) : tickets[r] = c,
                          "TICKET", c)
       ELSE out' = Record(p, "ticket", 0, "NOT_FOUND", 0)
    /\ UNCHANGED <<trips, res, tickets, sessions, delivered, procs, pricing>>

\* ------------------------------- POST /stripe/webhook (public.js:1156)

\* SET status='PAID', paid_at=NOW(), stripe_session_id=COALESCE(..., ?),
\* stripe_payment_intent_id=? WHERE status <> 'PAID' AND method ONLINE
PaidByGateway(r, s) ==
    IF r.status # "PAID" /\ r.method = "ONLINE"
    THEN [r EXCEPT !.status = "PAID", !.paidAt = r.paidAt + 1,
                   !.sid = IF r.sid # 0 THEN r.sid ELSE s, !.pi = s]
    ELSE r

\* checkout.session.completed / async_payment_succeeded with payment_status
\* paid: the UPDATE; ensureTicketForReservation follows
WebhookSucceeded(p) ==
    /\ procs[p].op = "idle"
    /\ \E s \in 1..Len(sessions) :
        LET r == sessions[s].res IN
        /\ sessions[s].st = "paid"
        /\ ~RowLocked(r)
        /\ PaidByGateway(res[r], s).paidAt <= MaxPaidWrites
        /\ res' = [res EXCEPT ![r] = PaidByGateway(res[r], s)]
        /\ procs' = [procs EXCEPT ![p] =
              [Idle EXCEPT !.op = "webhook", !.pc = "et_read", !.rid = r,
                           !.sid = s]]
    /\ UNCHANGED <<trips, tickets, sessions, delivered, out, pricing>>

\* the same UPDATE without stripe_session_id=NULL
AsyncFailedKeepSession(r, s) ==
    IF r.method = "ONLINE" /\ r.status # "PAID"
    THEN [r EXCEPT !.status = "PENDING_PAYMENT",
                   !.pi = IF r.pi # 0 THEN r.pi ELSE s]
    ELSE r

\* SET status='PENDING_PAYMENT', stripe_payment_intent_id=COALESCE(..., ?),
\* stripe_session_id=NULL WHERE method ONLINE AND status <> 'PAID'
AsyncFailedRow(r, s) ==
    IF r.method = "ONLINE" /\ r.status # "PAID"
    THEN [r EXCEPT !.status = "PENDING_PAYMENT",
                   !.pi = IF r.pi # 0 THEN r.pi ELSE s, !.sid = 0]
    ELSE r

\* checkout.session.async_payment_failed
WebhookAsyncFailed(s) ==
    /\ s \in 1..Len(sessions) /\ sessions[s].st = "failed"
    /\ ~RowLocked(sessions[s].res)
    /\ res' = [res EXCEPT ![sessions[s].res] =
                  AsyncFailedRow(res[sessions[s].res], s)]
    /\ UNCHANGED <<trips, tickets, sessions, delivered, procs, out, pricing>>

\* SET status='EXPIRED', stripe_session_id=NULL
\* WHERE method ONLINE AND status <> 'PAID'
ExpiredRow(r) ==
    IF r.method = "ONLINE" /\ r.status # "PAID"
    THEN [r EXCEPT !.status = "EXPIRED", !.sid = 0]
    ELSE r

\* checkout.session.expired
WebhookExpired(s) ==
    /\ s \in 1..Len(sessions) /\ sessions[s].st = "expired"
    /\ ~RowLocked(sessions[s].res)
    /\ res' = [res EXCEPT ![sessions[s].res] = ExpiredRow(res[sessions[s].res])]
    /\ UNCHANGED <<trips, tickets, sessions, delivered, procs, out, pricing>>

\* the handler without the signature check
NoVerification(sig) == TRUE

\* stripe.webhooks.constructEvent(req.rawBody, sig, secret) returns the
\* event only when sig is the signature of the raw body; else it throws
constructEvent(sig) == sig = "valid"

EventTypes == {"succeeded", "async_failed", "expired"}

\* what the handler's UPDATE for an event of type ev does to row r
ApplyEvent(r, ev, s) ==
    IF ev = "succeeded" THEN PaidByGateway(r, s)
    ELSE IF ev = "async_failed" THEN AsyncFailedRow(r, s)
    ELSE ExpiredRow(r)

\* a request whose stripe-signature header is missing or forged; its body
\* may name any reservation and any event
WebhookUnsigned(p) ==
    /\ procs[p].op = "idle"
    /\ \E sig \in {"forged", "missing"}, r \in 1..Len(res),
          ev \in EventTypes, s \in 1..MaxSessions :
        IF ~constructEvent(sig)
        THEN /\ res' = res
             /\ out' = Record(p, "webhook", r, "REJECT_400", 0)
        ELSE /\ res' = [res EXCEPT ![r] = ApplyEvent(res[r], ev, s)]
             /\ out' = Record(p, "webhook", r, "ACK_200", 0)
    /\ UNCHANGED <<trips, tickets, sessions, delivered, procs, pricing>>

\* a verified payment-succeeded event whose UPDATE raises: the reservation
\* row stays locked by a mark-paid transaction until the lock wait times
\* out; the handler's catch answers 500
WebhookLockTimeout(p) ==
    /\ procs[p].op = "idle"
    /\ \E s \in 1..Len(sessions) :
        /\ sessions[s].st = "paid"
        /\ RowLocked(sessions[s].res)
        /\ out' = Record(p, "webhook", sessions[s].res, "ERROR_500", 0)
    /\ UNCHANGED <<trips, res, tickets, sessions, delivered, procs, pricing>>

\* ----------------------------------- GET /pay/t/:token (public.js:618)

\* after the session_id block: redirect to checkout, issue the ticket, or
\* render the page
PayTail(p, me) ==
    IF me.method = "ONLINE" /\ me.st # "PAID" /\ me.sid = 0
    THEN /\ procs' = [procs EXCEPT ![p] = Idle]
         /\ out' = Record(p, "pay", me.rid,
                           IF me.st = "EXPIRED" THEN "PAGE_EXPIRED" ELSE "REDIRECT_CHECKOUT", 0)
    ELSE IF me.st = "PAID" /\ me.tk = 0
    THEN /\ procs' = [procs EXCEPT ![p] = [me EXCEPT !.pc = "et_read"]]
         /\ out' = out
    ELSE /\ procs' = [procs EXCEPT ![p] = Idle]
         /\ out' = Record(p, "pay", me.rid,
                           "PAGE", me.tk)

\* the reservation read by token, its ticket code, the session_id parameter
PayRead(p) ==
    /\ procs[p].op = "idle"
    /\ \E r \in 1..Len(res), sid \in 0..Len(sessions) :
        LET me == [Idle EXCEPT !.op = "pay", !.rid = r, !.sid = sid,
                               !.method = res[r].method,
                               !.st = res[r].status, !.tk = tickets[r]] IN
        IF me.method = "ONLINE" /\ me.st # "PAID" /\ sid # 0
        THEN /\ procs' = [procs EXCEPT ![p] = [me EXCEPT !.pc = "pay_retrieve"]]
             /\ out' = out
        ELSE PayTail(p, me)
    /\ UNCHANGED <<trips, res, tickets, sessions, delivered, pricing>>

\* stripe.checkout.sessions.retrieve(sid)
PayRetrieve(p) ==
    LET me == procs[p] IN
    /\ me.op = "pay" /\ me.pc = "pay_retrieve"
    /\ IF sessions[me.sid].st = "paid"
       THEN /\ procs' = [procs EXCEPT ![p].pc = "pay_update"]
            /\ out' = out
       ELSE PayTail(p, me)
    /\ UNCHANGED <<trips, res, tickets, sessions, delivered, pricing>>

\* the UPDATE to PAID, then st = "PAID" whatever the UPDATE matched
PayUpdate(p) ==
    LET me == procs[p] IN
    /\ me.op = "pay" /\ me.pc = "pay_update"
    /\ ~RowLocked(me.rid)
    /\ PaidByGateway(res[me.rid], me.sid).paidAt <= MaxPaidWrites
    /\ res' = [res EXCEPT ![me.rid] = PaidByGateway(res[me.rid], me.sid)]
    /\ PayTail(p, [me EXCEPT !.st = "PAID"])
    /\ UNCHANGED <<trips, tickets, sessions, delivered, pricing>>

\* ------------------------------------------------------------------ Next

Next ==
    \/ \E p \in Workers : FirstIdle(p) /\ ReserveBegin(p)
    \/ \E p \in Workers : ReserveLookup(p)
    \/ \E p \in Workers : ReserveLock(p)
    \/ \E p \in Workers : ReserveAvail(p)
    \/ \E p \in Workers : ReserveInsert(p)
    \/ \E p \in Workers : ReserveCommit(p)
    \/ \E p \in Workers : FirstIdle(p) /\ MarkPaidLock(p)
    \/ \E p \in Workers : MarkPaidTicket(p)
    \/ \E r \in 1..MaxRes : Cancel(r)
    \/ \E r \in 1..MaxRes : RefundDone(r)
    \/ \E t \in Trips : TripDisable(t)
    \/ \E t \in Trips : TripEnable(t)
    \/ \E s \in 1..MaxSessions : GatewayPay(s)
    \/ \E s \in 1..MaxSessions : GatewayAsyncFail(s)
    \/ \E s \in 1..MaxSessions : GatewayExpire(s)
    \/ \E p \in Workers : FirstIdle(p) /\ CsRead(p)
    \/ \E p \in Workers : CsRetrieve(p)
    \/ \E p \in Workers : CsCreate(p)
    \/ \E p \in Workers : CsPersist(p)
    \/ \E p \in Workers : FirstIdle(p) /\ WebhookSucceeded(p)
    \/ \E s \in 1..MaxSessions : WebhookAsyncFailed(s)
    \/ \E s \in 1..MaxSessions : WebhookExpired(s)
    \/ \E p \in Workers : FirstIdle(p) /\ PayRead(p)
    \/ \E p \in Workers : PayRetrieve(p)
    \/ \E p \in Workers : PayUpdate(p)
    \/ \E p \in Workers : EtRead(p)
    \/ \E p \in Workers : EtInsert(p)
    \/ \E p \in Workers : EtReread(p)

Spec == Init /\ [][Next]_vars

\* ------------------------------------------------- race specifications

AllServed ==
    \A p \in Workers : procs[p].op = "idle" /\ p \in DOMAIN out /\ out[p] # NoOut

\* NRace concurrent POST /reserve for four PASSENGER seats on one OPEN trip
InitReserveRace ==
    /\ trips = [t \in Trips |-> "OPEN"]
    /\ res = <<>>
    /\ tickets = [r \in 1..MaxRes |-> 0]
    /\ sessions = <<>>
    /\ delivered = {}
    /\ procs = [p \in 1..NRace |-> Idle]
    /\ out = [p \in 1..NRace |-> NoOut]
    /\ pricing = DefaultPricing

RaceReserve(p) ==
    /\ Fresh(p)
    /\ ReserveStart(p, {1}, {"PASSENGER"}, {4}, ALLOWED_PAYMENT_METHODS,
                    {"none", "match"}, {TRUE})

NextReserveRace ==
    \/ \E p \in Workers : RaceReserve(p)
    \/ \E p \in Workers : ReserveLookup(p)
    \/ \E p \in Workers : ReserveLock(p)
    \/ \E p \in Workers : ReserveAvail(p)
    \/ \E p \in Workers : ReserveInsert(p)
    \/ \E p \in Workers : ReserveCommit(p)

SpecReserveRace == InitReserveRace /\ [][NextReserveRace]_vars

\* a reservation paid through the gateway, as the webhook's UPDATE leaves it
GatewayPaidRow(s, type) ==
    [trip |-> 1, type |-> type,
     seats |-> IF type = "PASSENGER" THEN 4 ELSE 0, names |-> 0,
     method |-> "ONLINE", status |-> "PAID", paidAt |-> 1, sid |-> s, pi |-> s,
     seq |-> 0, token |-> s + 1, payments |-> <<>>,
     unit |-> computeTotalsWithPricing(type, IF type = "PASSENGER" THEN 4 ELSE 0,
                                       DefaultPricing).unit,
     total |-> computeTotalsWithPricing(type, IF type = "PASSENGER" THEN 4 ELSE 0,
                                        DefaultPricing).total]

\* NRace deliveries of the payment-succeeded event of reservation 1 have all
\* run their UPDATE and enter ensureTicketForReservation; reservation 2, when
\* there is one, was paid and ticketed before
InitTicketRace ==
    /\ trips = [t \in Trips |-> "OPEN"]
    /\ \/ /\ \E type \in ALLOWED_TYPES : res = <<GatewayPaidRow(1, type)>>
          /\ tickets = [r \in 1..MaxRes |-> 0]
          /\ sessions = <<SessionOf(res, 1, "paid")>>
          /\ delivered = {}
       \/ /\ \E type \in ALLOWED_TYPES :
                res = <<GatewayPaidRow(1, type), GatewayPaidRow(2, type)>>
          /\ \E c \in HexCodes :
                tickets = [r \in 1..MaxRes |-> IF r = 2 THEN c ELSE 0]
          /\ sessions = <<SessionOf(res, 1, "paid"), SessionOf(res, 2, "paid")>>
          /\ delivered = {2}
    /\ procs = [p \in 1..NRace |->
                  [Idle EXCEPT !.op = "webhook", !.pc = "et_read", !.rid = 1,
                               !.sid = 1]]
    /\ out = [p \in 1..NRace |-> NoOut]
    /\ pricing = DefaultPricing

NextTicketRace ==
    \/ \E p \in Workers : EtRead(p)
    \/ \E p \in Workers : EtInsert(p)
    \/ \E p \in Workers : EtReread(p)

SpecTicketRace == InitTicketRace /\ [][NextTicketRace]_vars

\* admin mark-paid (worker 1) against deliveries of the payment-succeeded
\* event (the other workers) for one pending ONLINE reservation
InitPaidRace ==
    /\ trips = [t \in Trips |-> "OPEN"]
    /\ \E type \in ALLOWED_TYPES :
          res = <<[GatewayPaidRow(1, type) EXCEPT !.status = "PENDING_PAYMENT",
                                                  !.paidAt = 0, !.pi = 0]>>
    /\ tickets = [r \in 1..MaxRes |-> 0]
    /\ sessions = <<SessionOf(res, 1, "paid")>>
    /\ delivered = {}
    /\ procs = [p \in 1..NRace |-> Idle]
    /\ out = [p \in 1..NRace |-> NoOut]
    /\ pricing = DefaultPricing

NextPaidRace ==
    \/ \E p \in Workers : Fresh(p) /\ p = 1 /\ MarkPaidLock(p)
    \/ \E p \in Workers : MarkPaidTicket(p)
    \/ \E p \in Workers : Fresh(p) /\ p # 1 /\ WebhookSucceeded(p)
    \/ \E p \in Workers : EtRead(p)
    \/ \E p \in Workers : EtInsert(p)
    \/ \E p \in Workers : EtReread(p)

SpecPaidRace == InitPaidRace /\ [][NextPaidRace]_vars

\* NRace concurrent create-session calls for one pending ONLINE reservation
\* that has no stored session, or a stored session that is still open
PendingOnlineRow(s, type) ==
    [GatewayPaidRow(s, type) EXCEPT !.status = "PENDING_PAYMENT",
                                    !.paidAt = 0, !.pi = 0]

InitSessionRace ==
    /\ trips = [t \in Trips |-> "OPEN"]
    /\ \E type \in ALLOWED_TYPES :
          \/ res = <<PendingOnlineRow(0, type)>> /\ sessions = <<>>
          \/ /\ res = <<PendingOnlineRow(1, type)>>
             /\ sessions = <<SessionOf(res, 1, "open")>>
    /\ tickets = [r \in 1..MaxRes |-> 0]
    /\ delivered = {}
    /\ procs = [p \in 1..NRace |-> Idle]
    /\ out = [p \in 1..NRace |-> NoOut]
    /\ pricing = DefaultPricing

NextSessionRace ==
    \/ \E p \in Workers : Fresh(p) /\ CsRead(p)
    \/ \E p \in Workers : CsRetrieve(p)
    \/ \E p \in Workers : CsCreateUpTo(p, NRace + 1)
    \/ \E p \in Workers : CsPersist(p)
    \/ \E s \in 1..(NRace + 1) : GatewayExpire(s)

SpecSessionRace == InitSessionRace /\ [][NextSessionRace]_vars

\* webhook requests, signed and unsigned, against admin mark-paid for one
\* pending ONLINE reservation whose session is open, paid, failed or expired
InitWebhook ==
    /\ trips = [t \in Trips |-> "OPEN"]
    /\ \E type \in ALLOWED_TYPES : res = <<PendingOnlineRow(1, type)>>
    /\ \E st \in {"open", "paid", "failed", "expired"} :
          sessions = <<SessionOf(res, 1, st)>>
    /\ tickets = [r \in 1..MaxRes |-> 0]
    /\ delivered = {}
    /\ procs = [p \in 1..NRace |-> Idle]
    /\ out = [p \in 1..NRace |-> NoOut]
    /\ pricing = DefaultPricing

NextWebhook ==
    \/ \E p \in Workers : Fresh(p) /\ WebhookUnsigned(p)
    \/ \E p \in Workers : Fresh(p) /\ WebhookSucceeded(p)
    \/ \E p \in Workers : Fresh(p) /\ WebhookLockTimeout(p)
    \/ \E p \in Workers : EtRead(p)
    \/ \E p \in Workers : EtInsert(p)
    \/ \E p \in Workers : EtReread(p)
    \/ \E s \in 1..MaxSessions : WebhookAsyncFailed(s)
    \/ \E s \in 1..MaxSessions : WebhookExpired(s)
    \/ \E p \in Workers : Fresh(p) /\ MarkPaidLock(p)
    \/ \E p \in Workers : MarkPaidTicket(p)

SpecWebhook == InitWebhook /\ [][NextWebhook]_vars

\* trip disable / enable and cancel applied to any stored table of up to
\* MaxDisableRows reservations on the trips of one date
StoredRow(t, st) ==
    [PendingOnlineRow(0, "PASSENGER") EXCEPT
        !.trip = t, !.status = st, !.seats = 1, !.total = 1,
        !.method = IF st = "PAY_AT_BOARDING" THEN "TAQUILLA" ELSE "ONLINE",
        !.paidAt = IF st = "PAID" THEN 1 ELSE 0]

AllStatuses == ActiveStatuses \cup {"CANCELLED", "EXPIRED"}

\* the statements of the route do not depend on the order of the rows: one
\* table per multiset of rows, listed by trip and then by status
StatusRank(st) ==
    CASE st = "PENDING_PAYMENT" -> 1 [] st = "PAY_AT_BOARDING" -> 2
      [] st = "PAID" -> 3 [] st = "CANCELLED" -> 4 [] OTHER -> 5

Listed(ts, ss, n) ==
    \A i \in 1..(n - 1) :
        \/ ts[i] < ts[i + 1]
        \/ ts[i] = ts[i + 1] /\ StatusRank(ss[i]) <= StatusRank(ss[i + 1])

InitTripDisable ==
    /\ trips = [t \in 1..NFolioTrips |-> "OPEN"]
    /\ \E n \in 0..MaxDisableRows :
        \E ts \in [1..n -> 1..NFolioTrips], ss \in [1..n -> AllStatuses] :
            /\ Listed(ts, ss, n)
            /\ res = [i \in 1..n |->
                        [StoredRow(ts[i], ss[i]) EXCEPT !.token = i]]
    /\ tickets = [r \in 1..MaxRes |-> 0]
    /\ sessions = <<>>
    /\ delivered = {}
    /\ procs = [p \in 1..NProc |-> Idle]
    /\ out = [p \in 1..NProc |-> NoOut]
    /\ pricing = DefaultPricing

NextTripDisable ==
    \/ \E p \in Workers, t \in DOMAIN trips : Fresh(p) /\ TripDisableBy(p, t)
    \/ \E t \in DOMAIN trips : TripEnable(t)

SpecTripDisable == InitTripDisable /\ [][NextTripDisable]_vars

\* trips disabled and enabled again, in any order and any number of times,
\* over any stored table of up to MaxRes reservations
InitTripEnable ==
    /\ trips \in [1..NFolioTrips -> {"OPEN", "CANCELLED"}]
    /\ \E n \in 0..MaxRes :
        \E ts \in [1..n -> 1..NFolioTrips], ss \in [1..n -> AllStatuses] :
            /\ Listed(ts, ss, n)
            /\ res = [i \in 1..n |->
                        [StoredRow(ts[i], ss[i]) EXCEPT !.token = i]]
    /\ tickets = [r \in 1..MaxRes |-> 0]
    /\ sessions = <<>>
    /\ delivered = {}
    /\ procs = [p \in 1..NProc |-> Idle]
    /\ out = [p \in 1..NProc |-> NoOut]
    /\ pricing = DefaultPricing

NextTripEnable ==
    \/ \E p \in Workers, t \in DOMAIN trips : TripDisableBy(p, t)
    \/ \E p \in Workers, t \in DOMAIN trips : TripSetBy(p, t, TRUE)

SpecTripEnable == InitTripEnable /\ [][NextTripEnable]_vars

\* the admin cancel route on any stored table of up to MaxRes reservations,
\* against mark-paid requests on the same rows
CancelTarget(st, method) ==
    [PendingOnlineRow(0, "PASSENGER") EXCEPT
        !.status = st, !.method = method, !.seats = 1, !.total = 1,
        !.paidAt = IF st = "PAID" THEN 1 ELSE 0]

\* PAY_AT_BOARDING is the status of new TAQUILLA rows, PENDING_PAYMENT of the
\* other methods, EXPIRED of ONLINE rows; mark-paid stores any method
StatusFits(st, method) ==
    /\ st = "PENDING_PAYMENT" => method # "TAQUILLA"
    /\ st = "EXPIRED" => method = "ONLINE"
    /\ st = "PAY_AT_BOARDING" => method = "TAQUILLA"

InitCancel ==
    /\ trips = [t \in Trips |-> "OPEN"]
    /\ \E n \in 0..MaxRes :
        \E ss \in [1..n -> AllStatuses],
           ms \in [1..n -> ALLOWED_PAYMENT_METHODS] :
            /\ \A i \in 1..n : StatusFits(ss[i], ms[i])
            /\ res = [i \in 1..n |->
                        [CancelTarget(ss[i], ms[i]) EXCEPT !.token = i]]
    /\ tickets = [r \in 1..MaxRes |-> 0]
    /\ sessions = <<>>
    /\ delivered = {}
    /\ procs = [p \in 1..NRace |-> Idle]
    /\ out = [p \in 1..NRace |-> NoOut]
    /\ pricing = DefaultPricing

NextCancel ==
    \/ \E p \in Workers, r \in 1..MaxRes : Fresh(p) /\ CancelBy(p, r)
    \/ \E p \in Workers : Fresh(p) /\ CancelMissing(p)
    \/ \E p \in Workers : Fresh(p) /\ InOrder(p) /\ MarkPaidLock(p)
    \/ \E p \in Workers : MarkPaidTicket(p)

SpecCancel == InitCancel /\ [][NextCancel]_vars

\* NRace requests on the legacy routes for reservations stored with or
\* without a token, against POST /reserve and cancel
InitToken ==
    /\ trips = [t \in Trips |-> "OPEN"]
    /\ \E n \in 1..MaxRes :
        \E legacy \in [1..n -> BOOLEAN] :
            res = [i \in 1..n |->
                     [PendingOnlineRow(0, "PASSENGER") EXCEPT
                        !.seats = 1, !.total = 1,
                        !.token = IF legacy[i] THEN 0 ELSE i]]
    /\ tickets = [r \in 1..MaxRes |-> 0]
    /\ sessions = <<>>
    /\ delivered = {}
    /\ procs = [p \in 1..NRace |-> Idle]
    /\ out = [p \in 1..NRace |-> NoOut]
    /\ pricing = DefaultPricing

TokenReserve(p) ==
    /\ Fresh(p) /\ InOrder(p)
    /\ ReserveStart(p, {1}, {"PASSENGER"}, {1}, {"ONLINE"}, {"none"}, {TRUE})

NextToken ==
    \/ \E p \in Workers : Fresh(p) /\ InOrder(p) /\ LegacyStart(p)
    \/ \E p \in Workers : TkUpdate(p)
    \/ \E p \in Workers : TkReadback(p)
    \/ \E p \in Workers : TkFinal(p)
    \/ \E p \in Workers : TokenReserve(p)
    \/ \E p \in Workers : ReserveLookup(p)
    \/ \E p \in Workers : ReserveLock(p)
    \/ \E p \in Workers : ReserveAvail(p)
    \/ \E p \in Workers : ReserveInsert(p)
    \/ \E p \in Workers : ReserveCommit(p)
    \/ Cancel(1)

SpecToken == InitToken /\ [][NextToken]_vars

\* NRace requests, GET /availability or POST /reserve, on the trips of one
\* date and direction, each trip row missing, OPEN or CANCELLED at the start
InitAvail ==
    /\ trips \in [1..NFolioTrips -> {"NONE", "OPEN", "CANCELLED"}]
    /\ res = <<>>
    /\ tickets = [r \in 1..MaxRes |-> 0]
    /\ sessions = <<>>
    /\ delivered = {}
    /\ procs = [p \in 1..NRace |-> Idle]
    /\ out = [p \in 1..NRace |-> NoOut]
    /\ pricing = DefaultPricing

AvailReserve(p) ==
    /\ Fresh(p) /\ InOrder(p)
    /\ ReserveStart(p, DOMAIN trips, {"PASSENGER"}, {2}, {"TAQUILLA"},
                    {"none"}, {TRUE})

NextAvail ==
    \/ \E p \in Workers : Fresh(p) /\ InOrder(p) /\ AvailStart(p)
    \/ \E p \in Workers : AvailTrip(p)
    \/ \E p \in Workers : AvailReserve(p)
    \/ \E p \in Workers : ReserveLookup(p)
    \/ \E p \in Workers : ReserveLock(p)
    \/ \E p \in Workers : ReserveAvail(p)
    \/ \E p \in Workers : ReserveInsert(p)
    \/ \E p \in Workers : ReserveCommit(p)

SpecAvail == InitAvail /\ [][NextAvail]_vars

\* mark-paid, cancel and trip disable on stored reservations, each with no
\* row in transporte_payments or one PENDING row (a transfer to be verified)
PendingPayment == [method |-> "TRANSFERENCIA", status |-> "PENDING"]

InitAudit ==
    /\ trips = [t \in Trips |-> "OPEN"]
    /\ \E n \in 1..MaxRes :
        \E ss \in [1..n -> {"PENDING_PAYMENT", "PAID", "CANCELLED"}],
           ps \in [1..n -> {<<>>, <<PendingPayment>>}] :
            res = [i \in 1..n |->
                     [CancelTarget(ss[i], "TRANSFERENCIA") EXCEPT
                        !.token = i, !.payments = ps[i]]]
    /\ tickets = [r \in 1..MaxRes |-> 0]
    /\ sessions = <<>>
    /\ delivered = {}
    /\ procs = [p \in 1..NRace |-> Idle]
    /\ out = [p \in 1..NRace |-> NoOut]
    /\ pricing = DefaultPricing

NextAudit ==
    \/ \E p \in Workers, r \in 1..MaxRes :
            Fresh(p) /\ InOrder(p) /\ CancelBy(p, r)
    \/ \E p \in Workers : Fresh(p) /\ InOrder(p) /\ MarkPaidLock(p)
    \/ \E p \in Workers : MarkPaidTicket(p)
    \/ \E p \in Workers, t \in Trips :
            Fresh(p) /\ InOrder(p) /\ TripDisableBy(p, t)

SpecAudit == InitAudit /\ [][NextAudit]_vars

\* computeAvailable asked for every trip of a date over any stored table of
\* up to MaxRes reservations: rows with and without roster, with seats 0
\* (stored before the seats column was filled), of every status
LedgerRow(t, type, st, seats, names) ==
    [PendingOnlineRow(0, type) EXCEPT
        !.trip = t, !.status = st, !.seats = seats, !.names = names]

LedgerShapes == {<<0, 0>>, <<1, 0>>, <<4, 0>>, <<4, 2>>}

InitLedger ==
    /\ trips = [t \in 1..(NFolioTrips + 1) |-> "OPEN"]
    /\ \E n \in 0..MaxRes :
        \E ts \in [1..n -> DOMAIN trips], ty \in [1..n -> ALLOWED_TYPES],
           ss \in [1..n -> AllStatuses], sh \in [1..n -> LedgerShapes] :
            \* the sum does not depend on the order of the rows
            /\ \A i \in 1..(n - 1) : ts[i] <= ts[i + 1]
            /\ \A i \in 1..n : ty[i] = "PACKAGE" => sh[i] = <<0, 0>>
            /\ \A i \in 1..n : ty[i] = "PACKAGE" =>
                    ss[i] \in {"PENDING_PAYMENT", "PAID"}
            /\ res = [i \in 1..n |->
                        [LedgerRow(ts[i], ty[i], ss[i], sh[i][1], sh[i][2])
                            EXCEPT !.token = i]]
    /\ tickets = [r \in 1..MaxRes |-> 0]
    /\ sessions = <<>>
    /\ delivered = {}
    /\ procs = <<Idle>>
    /\ out = <<NoOut>>
    /\ pricing = DefaultPricing

AvailableQuery(p, t) ==
    /\ out' = Record(p, "computeAvailable", t, "OK", computeAvailable(res, t))
    /\ UNCHANGED <<trips, res, tickets, sessions, delivered, procs, pricing>>

NextLedger == \E p \in Workers, t \in DOMAIN trips : AvailableQuery(p, t)

SpecLedger == InitLedger /\ [][NextLedger]_vars

\* NRace POST /reserve on one trip with seats sent from -1 to MAX_CAP + 1,
\* for PASSENGER and PACKAGE, with no names, one per seat or one too many
InitSeats ==
    /\ \E st \in {"NONE", "OPEN"} : trips = [t \in Trips |-> st]
    /\ res = <<>>
    /\ tickets = [r \in 1..MaxRes |-> 0]
    /\ sessions = <<>>
    /\ delivered = {}
    /\ procs = [p \in 1..NRace |-> Idle]
    /\ out = [p \in 1..NRace |-> NoOut]
    /\ pricing = DefaultPricing

SeatsReserve(p) ==
    /\ Fresh(p) /\ InOrder(p)
    /\ ReserveStart(p, {1}, ALLOWED_TYPES, {-1, 0, 1, 2, MAX_CAP, MAX_CAP + 1},
                    {"TAQUILLA"}, NameChoices, {TRUE})

NextSeats ==
    \/ \E p \in Workers : SeatsReserve(p)
    \/ \E p \in Workers : ReserveLookup(p)
    \/ \E p \in Workers : ReserveLock(p)
    \/ \E p \in Workers : ReserveAvail(p)
    \/ \E p \in Workers : ReserveInsert(p)
    \/ \E p \in Workers : ReserveCommit(p)

SpecSeats == InitSeats /\ [][NextSeats]_vars

\* ONLINE reservations created and their checkout sessions opened while the
\* operator changes the prices
InitPrice ==
    /\ trips = [t \in Trips |-> "OPEN"]
    /\ res = <<>>
    /\ tickets = [r \in 1..MaxRes |-> 0]
    /\ sessions = <<>>
    /\ delivered = {}
    /\ procs = [p \in 1..NRace |-> Idle]
    /\ out = [p \in 1..NRace |-> NoOut]
    /\ pricing \in [passenger : Prices, package : Prices]

PriceReserve(p) ==
    /\ Fresh(p) /\ InOrder(p)
    /\ Len(res) = 0
    /\ ReserveStart(p, {1}, ALLOWED_TYPES, {2}, {"ONLINE"}, {"none"}, {TRUE})

NextPrice ==
    \/ \E p \in Workers : PriceReserve(p)
    \/ \E p \in Workers : ReserveLookup(p)
    \/ \E p \in Workers : ReserveLock(p)
    \/ \E p \in Workers : ReserveAvail(p)
    \/ \E p \in Workers : ReserveInsert(p)
    \/ \E p \in Workers : ReserveCommit(p)
    \/ \E pr \in [passenger : Prices, package : Prices] : PriceChange(pr)
    \/ \E p \in Workers :
            InOrder(p) /\ out[p].op \in {"", "createSession"} /\ CsRead(p)
    \/ \E p \in Workers : CsRetrieve(p)
    \/ \E p \in Workers : CsCreate(p)
    \/ \E p \in Workers : CsPersist(p)
    \/ \E r \in 1..MaxRes : Cancel(r)

SpecPrice == InitPrice /\ [][NextPrice]_vars

\* NRace POST /reserve on one trip against the admin disabling and enabling
\* that trip; the trip row is missing, OPEN or CANCELLED at the start
InitDisableRace ==
    /\ \E st \in {"NONE", "OPEN", "CANCELLED"} : trips = [t \in Trips |-> st]
    /\ res = <<>>
    /\ tickets = [r \in 1..MaxRes |-> 0]
    /\ sessions = <<>>
    /\ delivered = {}
    /\ procs = [p \in 1..NRace |-> Idle]
    /\ out = [p \in 1..NRace |-> NoOut]
    /\ pricing = DefaultPricing

RaceReserveTwo(p) ==
    /\ Fresh(p) /\ InOrder(p)
    /\ ReserveStart(p, Trips, {"PASSENGER"}, {2}, {"TAQUILLA"},
                    {"none"}, {TRUE})

NextDisableRace ==
    \/ \E p \in Workers : RaceReserveTwo(p)
    \/ \E p \in Workers : ReserveLookup(p)
    \/ \E p \in Workers : ReserveLock(p)
    \/ \E p \in Workers : ReserveAvail(p)
    \/ \E p \in Workers : ReserveInsert(p)
    \/ \E p \in Workers : ReserveCommit(p)
    \/ \E t \in Trips : TripDisable(t)
    \/ \E t \in Trips : TripEnable(t)

SpecDisableRace == InitDisableRace /\ [][NextDisableRace]_vars

\* one request at a time on a capacity-6 trip: reservations for 1 or 6
\* seats, cancel, trip disable / enable, checkout sessions that expire
InitRelease ==
    /\ trips = [t \in Trips |-> "OPEN"]
    /\ res = <<>>
    /\ tickets = [r \in 1..MaxRes |-> 0]
    /\ sessions = <<>>
    /\ delivered = {}
    /\ procs = <<Idle>>
    /\ out = <<NoOut>>
    /\ pricing = DefaultPricing

ReleaseReserve(p) ==
    ReserveStart(p, {1}, {"PASSENGER"}, {1, 6}, {"TAQUILLA", "ONLINE"},
                 {"none"}, {TRUE})

Quiescent == \A p \in Workers : procs[p].op = "idle"

NextRelease ==
    \/ \E p \in Workers : ReleaseReserve(p)
    \/ \E p \in Workers : ReserveLookup(p)
    \/ \E p \in Workers : ReserveLock(p)
    \/ \E p \in Workers : ReserveAvail(p)
    \/ \E p \in Workers : ReserveInsert(p)
    \/ \E p \in Workers : ReserveCommit(p)
    \/ \E r \in 1..MaxRes : Quiescent /\ Cancel(r)
    \/ \E t \in Trips : Quiescent /\ TripDisable(t)
    \/ \E t \in Trips : Quiescent /\ TripEnable(t)
    \/ \E p \in Workers : CsRead(p)
    \/ \E p \in Workers : CsRetrieve(p)
    \/ \E p \in Workers : CsCreate(p)
    \/ \E p \in Workers : CsPersist(p)
    \/ \E s \in 1..MaxSessions : Quiescent /\ GatewayExpire(s)
    \/ \E s \in 1..MaxSessions : Quiescent /\ WebhookExpired(s)

SpecRelease == InitRelease /\ [][NextRelease]_vars

\* NRace POST /reserve with every kind of request body: missing contact
\* name, PACKAGE without details, too many passenger names, too many seats
InitAtomic ==
    /\ \E st \in {"NONE", "OPEN"} : trips = [t \in Trips |-> st]
    /\ res = <<>>
    /\ tickets = [r \in 1..MaxRes |-> 0]
    /\ sessions = <<>>
    /\ delivered = {}
    /\ procs = [p \in 1..NRace |-> Idle]
    /\ out = [p \in 1..NRace |-> NoOut]
    /\ pricing = DefaultPricing

RaceReserveAny(p) ==
    /\ Fresh(p) /\ InOrder(p)
    /\ ReserveStart(p, {1}, ALLOWED_TYPES, {4}, {"TAQUILLA"}, NameChoices,
                    BOOLEAN)

NextAtomic ==
    \/ \E p \in Workers : RaceReserveAny(p)
    \/ \E p \in Workers : Fresh(p) /\ InOrder(p) /\ ReserveBadEnum(p)
    \/ \E p \in Workers : ReserveLookup(p)
    \/ \E p \in Workers : ReserveLock(p)
    \/ \E p \in Workers : ReserveAvail(p)
    \/ \E p \in Workers : ReserveInsert(p)
    \/ \E p \in Workers : ReserveCommit(p)

SpecAtomic == InitAtomic /\ [][NextAtomic]_vars

\* ------------------------------------- daily folio sequence (folio date)

\* the index without the UNIQUE keyword
IndexNotUnique(table, s) == TRUE

\* CREATE UNIQUE INDEX uq_res_folio_date_daily_seq (folio_date, daily_seq):
\* no committed row of the date carries s
uq_res_folio_date_daily_seq(table, s) ==
    \A i \in 1..Len(table) : table[i].seq # s

\* another transaction holds an uncommitted row with the same index key
SeqKeyHeld(p, s) ==
    \E q \in Workers \ {p} :
        procs[q].op = "reserve" /\ procs[q].pc = "commit" /\ procs[q].seq = s

\* dailySeq = max(existing for folioDate) + 1 inside the creating
\* transaction, then the INSERT.  The read of the maximum sees the
\* transaction's snapshot or, as a locking read, the latest committed rows.
\* The INSERT waits for an uncommitted row with the same key and fails on a
\* committed one: rollback, 500.
FolioInsert(p) ==
    LET me == procs[p] IN
    /\ me.op = "reserve" /\ me.pc = "insert"
    /\ \E base \in {me.snapSeq, MaxSeq(res, Len(res))} :
        LET s == base + 1 IN
        /\ ~SeqKeyHeld(p, s)
        /\ IF uq_res_folio_date_daily_seq(res, s)
           THEN /\ procs' = [procs EXCEPT ![p].pc = "commit", ![p].seq = s,
                                          ![p].st = InitialStatus(me.method)]
                /\ out' = out
           ELSE Finish(p, "ERROR_500", 0)
    /\ UNCHANGED <<trips, res, tickets, sessions, delivered, pricing>>

\* NRace workers create reservations on the NFolioTrips trips of one date
InitFolio ==
    /\ trips = [t \in 1..NFolioTrips |-> "OPEN"]
    /\ res = <<>>
    /\ tickets = [r \in 1..MaxRes |-> 0]
    /\ sessions = <<>>
    /\ delivered = {}
    /\ procs = [p \in 1..NRace |-> Idle]
    /\ out = [p \in 1..NRace |-> NoOut]
    /\ pricing = DefaultPricing

FolioReserve(p) ==
    ReserveStart(p, DOMAIN trips, {"PASSENGER"}, {2}, {"TAQUILLA"},
                 NameChoices, {TRUE})

NextFolio ==
    \/ \E p \in Workers : FirstIdle(p) /\ FolioReserve(p)
    \/ \E p \in Workers : ReserveLookup(p)
    \/ \E p \in Workers : ReserveLock(p)
    \/ \E p \in Workers : ReserveAvail(p)
    \/ \E p \in Workers : FolioInsert(p)
    \/ \E p \in Workers : ReserveCommit(p)
    \/ \E r \in 1..MaxRes : Cancel(r)

SpecFolio == InitFolio /\ [][NextFolio]_vars

\* one ONLINE reservation whose checkout is retried: sessions are created,
\* paid, failed and expired at the gateway, the failed and expired events are
\* delivered in any order and any number of times, and the admin marks the
\* reservation paid or cancels it
RetrySessions == 1..(MaxSessions + 1)

InitRetry ==
    /\ trips = [t \in Trips |-> "OPEN"]
    /\ \E type \in ALLOWED_TYPES : res = <<PendingOnlineRow(0, type)>>
    /\ tickets = [r \in 1..MaxRes |-> 0]
    /\ sessions = <<>>
    /\ delivered = {}
    /\ procs = [p \in 1..NProc |-> Idle]
    /\ out = <<>>
    /\ pricing = DefaultPricing

NextRetry ==
    \/ \E p \in Workers : FirstIdle(p) /\ CsRead(p)
    \/ \E p \in Workers : CsRetrieve(p)
    \/ \E p \in Workers : CsCreateUpTo(p, MaxSessions + 1)
    \/ \E p \in Workers : CsPersist(p)
    \/ \E s \in RetrySessions : GatewayPay(s)
    \/ \E s \in RetrySessions : GatewayAsyncFail(s)
    \/ \E s \in RetrySessions : GatewayExpire(s)
    \/ \E p \in Workers : FirstIdle(p) /\ MarkPaidLock(p)
    \/ \E p \in Workers : MarkPaidTicket(p)
    \/ \E s \in RetrySessions : WebhookAsyncFailed(s)
    \/ \E s \in RetrySessions : WebhookExpired(s)
    \/ Cancel(1)

SpecRetry == InitRetry /\ [][NextRetry]_vars

\* the refund-confirmed route on any stored table of up to MaxRes
\* reservations, against mark-paid requests on the same rows; the route does
\* not depend on the order of the rows: one table per multiset of rows
MethodRank(method) ==
    CASE method = "TAQUILLA" -> 1 [] method = "TRANSFERENCIA" -> 2 [] OTHER -> 3

InitRefund ==
    /\ trips = [t \in Trips |-> "OPEN"]
    /\ \E n \in 0..MaxRes :
        \E ss \in [1..n -> AllStatuses],
           ms \in [1..n -> ALLOWED_PAYMENT_METHODS] :
            /\ \A i \in 1..n : StatusFits(ss[i], ms[i])
            /\ Listed([i \in 1..n |-> MethodRank(ms[i])], ss, n)
            /\ res = [i \in 1..n |->
                        [CancelTarget(ss[i], ms[i]) EXCEPT !.token = i]]
    /\ tickets = [r \in 1..MaxRes |-> 0]
    /\ sessions = <<>>
    /\ delivered = {}
    /\ procs = [p \in 1..NRace |-> Idle]
    /\ out = [p \in 1..NRace |-> NoOut]
    /\ pricing = DefaultPricing

NextRefund ==
    \/ \E p \in Workers, r \in 1..MaxRes :
            Fresh(p) /\ InOrder(p) /\ RefundDoneBy(p, r)
    \/ \E p \in Workers : Fresh(p) /\ InOrder(p) /\ MarkPaidLock(p)
    \/ \E p \in Workers : MarkPaidTicket(p)

SpecRefund == InitRefund /\ [][NextRefund]_vars

\* NRace requests, each one of POST /reserve, mark-paid (the handlers that
\* hold transactions), create-session, the pay page (the handlers that call
\* the gateway) and the payment-succeeded webhook, on one pending ONLINE
\* reservation that has no session, an open session or a paid session
InitGateway ==
    /\ trips = [t \in Trips |-> "OPEN"]
    /\ \/ res = <<PendingOnlineRow(0, "PASSENGER")>> /\ sessions = <<>>
       \/ /\ res = <<PendingOnlineRow(1, "PASSENGER")>>
          /\ \E st \in {"open", "paid"} : sessions = <<SessionOf(res, 1, st)>>
    /\ tickets = [r \in 1..MaxRes |-> 0]
    /\ delivered = {}
    /\ procs = [p \in 1..NRace |-> Idle]
    /\ out = [p \in 1..NRace |-> NoOut]
    /\ pricing = DefaultPricing

GatewayReserve(p) ==
    /\ Fresh(p) /\ InOrder(p)
    /\ ReserveStart(p, {1}, {"PASSENGER"}, {1}, {"ONLINE"}, {"none"}, {TRUE})

NextGateway ==
    \/ \E p \in Workers : GatewayReserve(p)
    \/ \E p \in Workers : ReserveLookup(p)
    \/ \E p \in Workers : ReserveLock(p)
    \/ \E p \in Workers : ReserveAvail(p)
    \/ \E p \in Workers : ReserveInsert(p)
    \/ \E p \in Workers : ReserveCommit(p)
    \/ \E p \in Workers : Fresh(p) /\ InOrder(p) /\ CsRead(p)
    \/ \E p \in Workers : CsRetrieve(p)
    \/ \E p \in Workers : CsCreate(p)
    \/ \E p \in Workers : CsPersist(p)
    \/ \E p \in Workers : Fresh(p) /\ InOrder(p) /\ PayRead(p)
    \/ \E p \in Workers : PayRetrieve(p)
    \/ \E p \in Workers : PayUpdate(p)
    \/ \E p \in Workers : Fresh(p) /\ InOrder(p) /\ WebhookSucceeded(p)
    \/ \E p \in Workers : EtRead(p)
    \/ \E p \in Workers : EtInsert(p)
    \/ \E p \in Workers : EtReread(p)
    \/ \E p \in Workers : Fresh(p) /\ InOrder(p) /\ MarkPaidLock(p)
    \/ \E p \in Workers : MarkPaidTicket(p)

SpecGateway == InitGateway /\ [][NextGateway]_vars

\* NRace requests, each one of cancel, refund-done and a ticket lookup by
\* code, on one reservation that was paid ONLINE and holds a ticket
InitTicketView ==
    /\ trips = [t \in Trips |-> "OPEN"]
    /\ \E type \in ALLOWED_TYPES : res = <<GatewayPaidRow(1, type)>>
    /\ \E c \in HexCodes : tickets = [r \in 1..MaxRes |-> IF r = 1 THEN c ELSE 0]
    /\ sessions = <<SessionOf(res, 1, "paid")>>
    /\ delivered = {1}
    /\ procs = [p \in 1..NRace |-> Idle]
    /\ out = [p \in 1..NRace |-> NoOut]
    /\ pricing = DefaultPricing

NextTicketView ==
    \/ \E p \in Workers, r \in 1..MaxRes :
            Fresh(p) /\ InOrder(p) /\ CancelBy(p, r)
    \/ \E p \in Workers, r \in 1..MaxRes :
            Fresh(p) /\ InOrder(p) /\ RefundDoneBy(p, r)
    \/ \E p \in Workers, c \in HexCodes \cup B64Codes :
            Fresh(p) /\ InOrder(p) /\ TicketLookup(p, c)

SpecTicketView == InitTicketView /\ [][NextTicketView]_vars

\* NRace + 1 concurrent POST /reserve for one seat on a trip that has no row
\* yet; a request may lack the contact name, which the handler finds out
\* after getOrCreateTrip
InitLockQueue ==
    /\ trips = [t \in Trips |-> "NONE"]
    /\ res = <<>>
    /\ tickets = [r \in 1..MaxRes |-> 0]
    /\ sessions = <<>>
    /\ delivered = {}
    /\ procs = [p \in 1..(NRace + 1) |-> Idle]
    /\ out = [p \in 1..(NRace + 1) |-> NoOut]
    /\ pricing = DefaultPricing

LockQueueReserve(p) ==
    /\ Fresh(p) /\ InOrder(p)
    /\ ReserveStartUpTo(p, NRace + 1, {1}, {"PASSENGER"}, {1}, {"TAQUILLA"},
                        {"none"}, {TRUE, FALSE})

NextLockQueue ==
    \/ \E p \in Workers : LockQueueReserve(p)
    \/ \E p \in Workers : NoSharedHolder(p) /\ ReserveLookup(p)
    \/ \E p \in Workers : ReserveLookupQueued(p)
    \/ \E p \in Workers : TripInsertResume(p)
    \/ \E p \in Workers : DeadlockVictim(p)
    \/ \E p \in Workers : VictimReselect(p)
    \/ \E p \in Workers : VictimLock(p)
    \/ \E p \in Workers : VictimAvail(p)
    \/ \E p \in Workers : VictimInsert(p)
    \/ \E p \in Workers : ReserveLock(p)
    \/ \E p \in Workers : ReserveAvail(p)
    \/ \E p \in Workers : ReserveInsert(p)
    \/ \E p \in Workers : ReserveCommit(p)

SpecLockQueue == InitLockQueue /\ [][NextLockQueue]_vars

\* ---------------------------------------------------------------- claims

\* C1: for every trip the seats of its active PASSENGER reservations
\* (PENDING_PAYMENT, PAY_AT_BOARDING, PAID) never sum to more than
\* min(template capacity, MAX_CAP); PACKAGE reservations count 0.
C1_NoOversell ==
    \A t \in Trips :
        UsedSeats(res, t) <= Min(capacity_passengers(t), MAX_CAP)

\* C2: of the concurrent requests for four seats on a trip of capacity 6,
\* exactly one commits and every other one is refused with the capacity
\* error; the committed seats never exceed 6.
C2_ExactlyOneCommits ==
    /\ UsedSeats(res, 1) <= 6
    /\ AllServed =>
        /\ Cardinality({p \in Workers : out[p].resp = "CREATED"}) = 1
        /\ \A p \in Workers : out[p].resp \in {"CREATED", "CAPACITY"}

\* C3: markPaid, a verified payment-succeeded event and the pay-page return
\* leave a CANCELLED or EXPIRED reservation in that status.
PaidPathStep ==
    \E p \in Workers : MarkPaidTicket(p) \/ WebhookSucceeded(p) \/ PayUpdate(p)

C3_TerminalImmune ==
    [][PaidPathStep =>
        \A r \in 1..Len(res) :
            res[r].status \in {"CANCELLED", "EXPIRED"}
                => res'[r].status = res[r].status]_vars

\* C4: once a reservation is PAID, CANCELLED or EXPIRED, no operation changes
\* its status again.
C4_TerminalFinal ==
    [][\A r \in 1..Len(res) :
        res[r].status \in {"PAID", "CANCELLED", "EXPIRED"}
            => res'[r].status = res[r].status]_vars

\* C5: a second delivery of a payment-succeeded event that was already
\* handled changes no reservation field and creates no ticket.
ReplayStep ==
    \E p \in Workers :
        \/ WebhookSucceeded(p) /\ procs'[p].sid \in delivered
        \/ /\ procs[p].op = "webhook" /\ procs[p].sid \in delivered
           /\ EtRead(p) \/ EtInsert(p) \/ EtReread(p)

C5_ReplayIdempotent ==
    [][ReplayStep => res' = res /\ tickets' = tickets]_vars

\* C6: after the concurrent ensureTicketForReservation calls for reservation 1
\* have returned, it has a ticket row and every caller returned its code.
C6_OneTicketSameCode ==
    AllServed =>
        /\ tickets[1] # 0
        /\ \A p \in Workers : out[p].code = tickets[1]

\* C7: markPaid and the payment-succeeded webhook racing on one pending
\* ONLINE reservation both answer without an error, the reservation ends
\* PAID and has a ticket.
C7_BothComplete ==
    AllServed =>
        /\ \A p \in Workers : out[p].resp # "ERROR_500"
        /\ res[1].status = "PAID"
        /\ tickets[1] # 0

\* C8: markPaid and a payment-succeeded event applied to the same pending
\* reservation give the same final record in either order.
MarkPaidRow(r, method) ==
    IF r.status = "CANCELLED" THEN r ELSE PaidByAdmin(r, method)

C8_Commute ==
    \A s \in 1..Len(sessions), method \in ALLOWED_PAYMENT_METHODS :
        LET r == res[sessions[s].res] IN
        (sessions[s].st = "paid"
            /\ r.status \in {"PENDING_PAYMENT", "PAY_AT_BOARDING"})
        => PaidByGateway(MarkPaidRow(r, method), s)
             = MarkPaidRow(PaidByGateway(r, s), method)

\* C9: when no operation is in progress, a reservation has a ticket row
\* exactly if it has ever reached PAID.
C9_TicketIffPaid ==
    Quiescent =>
        \A r \in 1..Len(res) : (tickets[r] # 0) <=> (res[r].paidAt > 0)

OpenSessions(r) ==
    {s \in 1..Len(sessions) : sessions[s].res = r /\ sessions[s].st = "open"}

C11_OneOpenSession ==
    \A r \in 1..Len(res) : Cardinality(OpenSessions(r)) <= 1

\* C12: a webhook request whose signature does not verify is answered with
\* a 4xx response and changes no reservation and no ticket row.
C12_UnsignedRejected ==
    [][\A p \in Workers :
        WebhookUnsigned(p) =>
            /\ res' = res /\ tickets' = tickets
            /\ out'[p].resp = "REJECT_400"]_vars

\* an unsigned request naming a reservation that a signed event could still
\* change was answered
C12_Witness ==
    \E p \in Workers :
        /\ out[p].op = "webhook" /\ out[p].resp = "REJECT_400"
        /\ res[out[p].rid].status = "PENDING_PAYMENT"

\* C13: every webhook request that passed signature verification is
\* answered with a 2xx acknowledgment, also when applying the event raises.
C13_AlwaysAck ==
    \A p \in Workers :
        (p \in DOMAIN out /\ out[p].op = "webhook"
            /\ out[p].resp # "REJECT_400")
        => out[p].resp = "ACK_200"

\* C14: disabling a trip sets it CANCELLED, changes to CANCELLED exactly the
\* reservations of that trip in PENDING_PAYMENT or PAY_AT_BOARDING, leaves
\* every other reservation as it was, and answers with the number of
\* reservations it changed.
C14_DisableCascade ==
    [][\A p \in Workers, t \in DOMAIN trips :
        TripDisableBy(p, t) =>
            /\ trips'[t] = "CANCELLED"
            /\ \A i \in 1..Len(res) :
                 IF res[i].trip = t
                    /\ res[i].status \in {"PENDING_PAYMENT", "PAY_AT_BOARDING"}
                 THEN res'[i] = [res[i] EXCEPT !.status = "CANCELLED"]
                 ELSE res'[i] = res[i]
            /\ out'[p].code
                 = Cardinality({i \in 1..Len(res) : res'[i] # res[i]})]_vars

\* a trip holding 3 PENDING_PAYMENT and 1 PAID reservation was disabled: the
\* answer says 3 and the PAID reservation is still PAID
C14_Witness ==
    \E p \in Workers :
        /\ out[p].op = "tripDisable" /\ out[p].code = 3
        /\ Len(res) = 4
        /\ \A i \in 1..4 : res[i].trip = out[p].rid
        /\ Cardinality({i \in 1..4 : res[i].status = "CANCELLED"}) = 3
        /\ Cardinality({i \in 1..4 : res[i].status = "PAID"}) = 1

LiveSeats(table, t) ==
    LET live == {i \in 1..Len(table) :
                    /\ table[i].trip = t /\ table[i].type = "PASSENGER"
                    /\ table[i].status \notin {"CANCELLED", "EXPIRED"}}
        RECURSIVE Sum(_)
        Sum(S) == IF S = {} THEN 0
                  ELSE LET i == CHOOSE x \in S : TRUE
                       IN table[i].seats + Sum(S \ {i})
    IN Sum(live)

C16_ReleasedSeats ==
    [][/\ computeAvailable(res', 1) = Max(0, 6 - LiveSeats(res', 1))
       /\ \A p \in Workers :
            ReserveAvail(p) =>
                IF procs[p].seats > 6 - LiveSeats(res, 1)
                THEN out'[p].resp = "CAPACITY" /\ procs'[p] = Idle
                ELSE procs'[p].pc = "insert"]_vars

\* the first reservation took all 6 seats and expired; a second one for 6
\* seats is committed in its place
C16_Witness ==
    /\ Len(res) = 2
    /\ res[1].seats = 6 /\ res[1].status = "EXPIRED"
    /\ res[2].seats = 6 /\ res[2].status \in ActiveStatuses
    /\ computeAvailable(res, 1) = 0

InvalidRequest(me) ==
    \/ ~me.hasName
    \/ me.type = "PACKAGE" /\ ~me.hasDetails
    \/ me.type = "PASSENGER" /\ me.names > 0 /\ me.names # me.seats

C18_ValidationFirst ==
    [][\A p \in Workers :
        (procs[p].op = "reserve" /\ procs'[p].op = "idle"
            /\ InvalidRequest(procs[p]))
        => /\ out'[p].resp = "VALIDATION"
           /\ ~TripLockedBy(p, procs[p].trip)]_vars

\* C19: a cancel request that finds its reservation changes only that row's
\* status, and only once no other transaction holds the row: it leaves a
\* CANCELLED row and a PAID row of a method other than ONLINE as they are,
\* and sets a PAID ONLINE row, a PENDING_PAYMENT row and a PAY_AT_BOARDING
\* row to CANCELLED.
CancelStep(p) == out[p] = NoOut /\ out'[p].op = "cancel"
                    /\ out'[p].resp = "REDIRECT"

C19_CancelRules ==
    [][\A p \in Workers : CancelStep(p) =>
        LET r == out'[p].rid
            old == res[r]
        IN /\ ~RowLocked(r)
           /\ Len(res') = Len(res)
           /\ \A i \in 1..Len(res) : i # r => res'[i] = res[i]
           /\ res'[r] = [old EXCEPT !.status = res'[r].status]
           /\ old.status = "CANCELLED" => res'[r] = old
           /\ (old.status = "PAID" /\ old.method # "ONLINE") => res'[r] = old
           /\ (old.status = "PAID" /\ old.method = "ONLINE")
                => res'[r].status = "CANCELLED"
           /\ old.status \in {"PENDING_PAYMENT", "PAY_AT_BOARDING"}
                => res'[r].status = "CANCELLED"]_vars

\* a cancel was refused on a reservation paid at the counter, and another
\* reservation paid online stands cancelled
C19_Witness ==
    \E p \in Workers, r \in 1..Len(res), q \in 1..Len(res) :
        /\ out[p].op = "cancel" /\ out[p].rid = r
        /\ res[r].status = "PAID" /\ res[r].method = "TAQUILLA"
        /\ res[q].status = "CANCELLED" /\ res[q].paidAt > 0
        /\ res[q].method = "ONLINE"
        /\ \E p2 \in Workers : out[p2].op = "cancel" /\ out[p2].rid = q

\* C20: every getOrCreateTrip call, also one made in a transaction that began
\* before another caller's insert of the same trip committed, returns the
\* trip row without raising an error, and no call leaves a second row.
C20_LookupNeverFails ==
    [][\A p \in Workers :
        (procs[p].op = "reserve" /\ procs[p].pc = "lookup"
            /\ procs'[p] # procs[p])
        => /\ procs'[p].op = "reserve" /\ procs'[p].pc = "lock"
           /\ procs'[p].madeTrip => trips[procs[p].trip] = "NONE"]_vars

\* C21: a reservation's public token, once stored, is never changed by any
\* operation, no two reservations share a token, and every request that
\* ensures the token of a reservation, alone or concurrently with others, is
\* answered with the token stored for that reservation.
C21_TokenStable ==
    [][/\ \A r \in 1..Len(res) :
            res[r].token # 0 => res'[r].token = res[r].token
       /\ \A r, q \in 1..Len(res') :
            (r # q /\ res'[r].token # 0) => res'[r].token # res'[q].token
       /\ \A p \in Workers :
            (out'[p].op = "legacy" /\ out'[p].resp = "REDIRECT")
            => /\ out'[p].code # 0
               /\ out'[p].code = res'[out'[p].rid].token]_vars

\* one request was answered with the token a concurrent request stored while
\* another, which also read the row without a token, is about to update it
C21_Witness ==
    \E p, q \in Workers :
        /\ p # q
        /\ out[p].op = "legacy" /\ out[p].resp = "REDIRECT"
        /\ procs[q].op = "legacy" /\ procs[q].pc = "tk_update"
        /\ procs[q].rid = out[p].rid
        /\ res[out[p].rid].token = out[p].code

\* C22: no public request keyed by the numeric reservation id is answered
\* with that reservation's token or a redirect to its token URL.
C22_IdRevealsNothing ==
    \A p \in Workers :
        out[p].op = "legacy" => (out[p].resp # "REDIRECT" /\ out[p].code = 0)

\* C23: serving an availability query changes no trip, reservation or ticket
\* row: the stored trips are the same before and after.
C23_AvailabilityReadOnly ==
    [][\A p \in Workers :
        (procs[p].op = "availability" /\ procs'[p] # procs[p])
        => (trips' = trips /\ res' = res /\ tickets' = tickets)]_vars

\* C24: a request that enables a trip sets the trip OPEN, leaves every
\* reservation as it was (those the earlier disable cancelled stay
\* CANCELLED) and answers with affected-row counts of 0.
C24_EnableKeepsRows ==
    [][\A p \in Workers :
        (out'[p] # out[p] /\ out'[p].op = "tripEnable")
        => /\ trips'[out'[p].rid] = "OPEN"
           /\ \A t \in DOMAIN trips :
                t # out'[p].rid => trips'[t] = trips[t]
           /\ res' = res
           /\ tickets' = tickets
           /\ out'[p].code = 0]_vars

\* a trip disabled with pending reservations on it and enabled again: the
\* trip is OPEN and a reservation of it is CANCELLED
C24_Witness ==
    \E p \in Workers, r \in 1..Len(res) :
        /\ out[p].op = "tripEnable"
        /\ trips[out[p].rid] = "OPEN"
        /\ res[r].trip = out[p].rid /\ res[r].status = "CANCELLED"
        /\ \E q \in 1..Len(res) :
              res[q].trip = out[p].rid /\ res[q].status = "PAID"

\* C25: markPaid applied to a reservation that is already PAID changes
\* nothing: paid_at, the payment method and the gateway identifiers keep
\* the values of the first transition into PAID.
C25_PaidUntouched ==
    [][\A p \in Workers :
        (procs[p].op = "markPaid" /\ procs'[p].op = "idle"
            /\ res[procs[p].rid].status = "PAID")
        => res'[procs[p].rid] = res[procs[p].rid]]_vars

\* C26: every markPaid that sets a reservation to PAID adds, in the same
\* transaction, one payment audit record of that reservation with the
\* chosen method; markPaid on a CANCELLED reservation writes nothing.
C26_PaidIsAudited ==
    [][\A p \in Workers :
        LET r == IF procs[p].op = "markPaid" THEN procs[p].rid
                 ELSE out'[p].rid IN
        /\ (procs[p].op = "markPaid" /\ procs'[p].op = "idle"
                /\ res[r].status # "PAID" /\ res'[r].status = "PAID")
            => /\ Len(res'[r].payments) = Len(res[r].payments) + 1
               /\ res'[r].payments[Len(res'[r].payments)].method
                    = procs[p].method
        /\ (out'[p] # out[p] /\ out'[p].op = "markPaid"
                /\ res[r].status = "CANCELLED")
            => (res' = res /\ tickets' = tickets)]_vars

\* C27: every cancel that sets a reservation to CANCELLED also sets to
\* REJECTED, in the same transaction, every PENDING payment audit row of
\* that reservation.
C27_CancelRejectsPending ==
    [][\A p \in Workers :
        (CancelStep(p) /\ res'[out'[p].rid].status = "CANCELLED"
            /\ res[out'[p].rid].status # "CANCELLED")
        => res'[out'[p].rid].payments
             = RejectPending(res[out'[p].rid].payments)]_vars

\* C28: computeAvailable(trip) is max(0, min(template capacity, 6) - S),
\* where S adds, for each PASSENGER reservation of the trip in status
\* PENDING_PAYMENT, PAY_AT_BOARDING or PAID, its roster size if it has a
\* roster, else its declared seats if not zero, else 1; PACKAGE, CANCELLED
\* and EXPIRED reservations add nothing, and a trip without reservations
\* yields min(template capacity, 6).
Counted(t) ==
    {i \in 1..Len(res) :
        /\ res[i].trip = t /\ res[i].type = "PASSENGER"
        /\ res[i].status \in {"PENDING_PAYMENT", "PAY_AT_BOARDING", "PAID"}}

SeatsOf(i) ==
    IF res[i].names > 0 THEN res[i].names
    ELSE IF res[i].seats > 0 THEN res[i].seats ELSE 1

RECURSIVE SumOver(_)
SumOver(S) ==
    IF S = {} THEN 0
    ELSE LET i == CHOOSE x \in S : TRUE IN SeatsOf(i) + SumOver(S \ {i})

EffectiveCapacity(t) ==
    IF capacity_passengers(t) < 6 THEN capacity_passengers(t) ELSE 6

C28_AvailableFormula ==
    \A p \in Workers :
        out[p].op = "computeAvailable" =>
            LET t == out[p].rid
                left == EffectiveCapacity(t) - SumOver(Counted(t)) IN
            /\ out[p].code = (IF left > 0 THEN left ELSE 0)
            /\ Counted(t) = {} => out[p].code = EffectiveCapacity(t)

\* asked for a trip of template capacity 4 that holds a reservation with a
\* roster of 2 on 4 declared seats and one stored with seats 0: 4 - 3 = 1
C28_Witness ==
    \E p \in Workers :
        /\ out[p].op = "computeAvailable" /\ out[p].code = 1
        /\ capacity_passengers(out[p].rid) = 4
        /\ \E i, j \in Counted(out[p].rid) :
              /\ res[i].names = 2 /\ res[i].seats = 4
              /\ res[j].names = 0 /\ res[j].seats = 0

\* C29: every committed PASSENGER reservation has 1 <= seats <= 6 and a
\* roster that is empty or has exactly seats names, every committed PACKAGE
\* reservation has seats 0 and no roster, and a PASSENGER request whose
\* name list is not empty and of another length is refused.
C29_SeatsAndRoster ==
    [][/\ \A r \in 1..Len(res') :
            IF res'[r].type = "PASSENGER"
            THEN /\ 1 <= res'[r].seats /\ res'[r].seats <= 6
                 /\ res'[r].names \in {0, res'[r].seats}
            ELSE res'[r].seats = 0 /\ res'[r].names = 0
       /\ \A p \in Workers :
            (procs[p].op = "reserve" /\ procs'[p].op = "idle"
                /\ procs[p].type = "PASSENGER"
                /\ procs[p].names > 0 /\ procs[p].names # procs[p].seats)
            => (out'[p].resp # "CREATED" /\ res' = res)]_vars

\* a PASSENGER reservation of 6 seats with its 6 names is stored and another
\* request was refused for its names
C29_Witness ==
    /\ \E r \in 1..Len(res) : res[r].seats = 6 /\ res[r].names = 6
    /\ \E p \in Workers : out[p].resp = "VALIDATION"

\* C30: a reservation's unit price and total are those of the price table
\* read by the transaction that creates it (per seat times seats for
\* PASSENGER, flat for PACKAGE), no later operation or price change alters
\* them, and a payment session created for the reservation is for exactly
\* the stored total.
C30_PriceSnapshot ==
    [][/\ \A p \in Workers :
            (procs[p].op = "idle" /\ procs'[p].op = "reserve") =>
                LET unit == IF procs'[p].type = "PASSENGER"
                            THEN pricing.passenger ELSE pricing.package IN
                /\ procs'[p].unit = unit
                /\ procs'[p].total = IF procs'[p].type = "PASSENGER"
                                      THEN unit * procs'[p].seats ELSE unit
       /\ \A p \in Workers :
            (procs[p].op = "reserve" /\ Len(res') = Len(res) + 1
                /\ procs'[p].op = "idle")
            => /\ res'[Len(res')].unit = procs[p].unit
               /\ res'[Len(res')].total = procs[p].total
       /\ \A r \in 1..Len(res) :
            res'[r].unit = res[r].unit /\ res'[r].total = res[r].total
       /\ Len(sessions') = Len(sessions) + 1
            => sessions'[Len(sessions')].amount
                 = res[sessions'[Len(sessions')].res].total]_vars

\* C31: a verified payment-failed-async event leaves an ONLINE reservation
\* that is not PAID in PENDING_PAYMENT with no stored session id and changes
\* nothing of a PAID reservation; a create-session call that reads no stored
\* session id retrieves no old session: it goes straight to creating one,
\* and the session it creates is a new open session of that reservation.
C31_AsyncFailedRetry ==
    [][/\ \A s \in 1..Len(sessions) :
            WebhookAsyncFailed(s) =>
                LET r == sessions[s].res IN
                /\ \A q \in 1..Len(res) : q # r => res'[q] = res[q]
                /\ (res[r].method = "ONLINE" /\ res[r].status # "PAID")
                    => /\ res'[r].status = "PENDING_PAYMENT"
                       /\ res'[r].sid = 0
                /\ res[r].status = "PAID" => res'[r] = res[r]
       /\ \A p \in Workers :
            (CsRead(p) /\ procs'[p].op = "createSession"
                /\ res[procs'[p].rid].sid = 0)
            => procs'[p].pc = "cs_create"
       /\ \A p \in Workers :
            (procs[p].pc = "cs_create" /\ procs'[p].pc = "cs_persist")
            => /\ Len(sessions') = Len(sessions) + 1
               /\ procs'[p].sid = Len(sessions')
               /\ sessions'[Len(sessions')].res = procs[p].rid
               /\ sessions'[Len(sessions')].st = "open"]_vars

\* the event of a failed session was applied (it left its payment intent
\* and no session id), and a later create-session stored a new session
C31_Witness ==
    \E s, n \in 1..Len(sessions) :
        /\ s < n
        /\ sessions[s].st = "failed" /\ sessions[s].res = 1
        /\ sessions[n].res = 1 /\ sessions[n].st = "open"
        /\ res[1].pi = s /\ res[1].status = "PENDING_PAYMENT"
        /\ res[1].sid = n

\* C32: the refund-confirmed action runs only when no other transaction
\* holds the lock of the reservation row; it sets the status to CANCELLED
\* when the row is PAID with method ONLINE and changes no other field; a row
\* in any other state, every other row and every ticket stay as they were.
C32_RefundOnlyPaidOnline ==
    [][\A p \in Workers, r \in 1..Len(res) :
        RefundDoneBy(p, r) =>
            /\ ~RowLocked(r)
            /\ \A q \in 1..Len(res) : q # r => res'[q] = res[q]
            /\ tickets' = tickets
            /\ IF res[r].status = "PAID" /\ res[r].method = "ONLINE"
               THEN res'[r] = [res[r] EXCEPT !.status = "CANCELLED"]
               ELSE res'[r] = res[r]]_vars

\* a refund was confirmed for a reservation paid ONLINE, and another for a
\* reservation that mark-paid had set to PAID with another method
C32_Witness ==
    \E p, q \in Workers :
        /\ out[p].op = "refundDone" /\ out[p].resp = "REDIRECT"
        /\ out[q].op = "refundDone" /\ out[q].resp = "REDIRECT"
        /\ res[out[p].rid].status = "CANCELLED"
        /\ res[out[p].rid].method = "ONLINE" /\ res[out[p].rid].paidAt > 0
        /\ res[out[q].rid].status = "PAID"
        /\ res[out[q].rid].method # "ONLINE"

C34_TicketRetry ==
    [][\A p \in Workers :
        (procs[p].pc \in {"et_read", "et_insert", "et_reread"}
            /\ procs'[p].pc = "idle")
        => /\ tickets'[procs[p].rid] # 0
           /\ out'[p].code = tickets'[procs[p].rid]]_vars

\* C35: when the pay page's UPDATE moves a reservation to PAID, the paid
\* session named by the session_id parameter was created for that
\* reservation.
C35_OwnSessionOnly ==
    [][\A p \in Workers :
        (PayUpdate(p) /\ res[procs[p].rid].status # "PAID"
            /\ res'[procs[p].rid].status = "PAID")
        => sessions[procs[p].sid].res = procs[p].rid]_vars

\* C36: a session-expired or payment-failed-async event whose session is not
\* the session stored on its reservation, delivered while the reservation
\* holds another, newer session, changes neither the status nor the stored
\* session id of the reservation.
C36_StaleEventIgnored ==
    [][\A s \in 1..Len(sessions) :
        LET r == sessions[s].res IN
        ((WebhookAsyncFailed(s) \/ WebhookExpired(s))
            /\ res[r].sid # 0 /\ res[r].sid # s)
        => /\ res'[r].status = res[r].status
           /\ res'[r].sid = res[r].sid]_vars

\* C37: a create-session call goes on to the gateway (to retrieve the stored
\* session or to create one) only when the reservation it read is ONLINE
\* and in PENDING_PAYMENT; for every other reservation it answers with an
\* error at once.
C37_SessionOnlyWhenPending ==
    [][\A p \in Workers :
        (CsRead(p) /\ procs'[p].op = "createSession")
        => /\ res[procs'[p].rid].method = "ONLINE"
           /\ res[procs'[p].rid].status = "PENDING_PAYMENT"]_vars

\* C38: while a trip is disabled (its row is CANCELLED) none of its
\* reservations is in PENDING_PAYMENT or PAY_AT_BOARDING.
C38_DisabledTripHasNoPending ==
    \A t \in DOMAIN trips :
        trips[t] = "CANCELLED" =>
            \A r \in 1..Len(res) :
                res[r].trip = t =>
                    res[r].status \notin {"PENDING_PAYMENT", "PAY_AT_BOARDING"}

\* C39: a ticket lookup by code answers with a ticket only when the
\* reservation of that ticket is PAID at the time of the lookup.
C39_TicketOnlyWhenPaid ==
    [][\A p \in Workers, c \in HexCodes \cup B64Codes :
        (TicketLookup(p, c) /\ out'[p].resp = "TICKET")
        => res[out'[p].rid].status = "PAID"]_vars

\* C40: no cycle of lock waits is reachable: no transaction waits, directly
\* or through other transactions, for a lock held by a transaction that
\* waits for it.
C40_NoWaitCycle ==
    \A p \in Workers : ~InWaitCycle(p)

====
